---- MODULE Spec2Model ----
(***************************************************************************)
(* Dual token-bucket rate limiter (rate_limiter.py) and the estimate /     *)
(* acquire / call / refund protocol of the conversations wrapper           *)
(* (client.py).                                                            *)
(*                                                                         *)
(* Time is counted in ticks of 1 / TicksPerSecond seconds; bucket credit   *)
(* is counted in whole requests / tokens.  The configuration is chosen so  *)
(* that both refill rates are a whole number of units per tick, which      *)
(* keeps the float arithmetic of the source exact in the integers.         *)
(*                                                                         *)
(* Callers are threads when they call the blocking limiter ("sync") and    *)
(* event-loop tasks when they call the suspending one ("async").  A        *)
(* thread's steps contain at most one access to the one field that is      *)
(* accessed without the lock (the blocking token bucket's `available`,     *)
(* written by _refund_tokens); a task's steps run from one await to the    *)
(* next.                                                                   *)
(***************************************************************************)
EXTENDS Integers, Sequences, FiniteSets, TLC

VARIABLES
    now,             \* time.monotonic(), in ticks
    request_bucket,  \* [flavor -> RateLimitState]  (self._request_bucket)
    token_bucket,    \* [flavor -> RateLimitState]  (self._token_bucket)
    built,           \* [flavor -> whether the limiter has been constructed]
    lock,            \* [flavor -> holder or None]  (self._lock)
    waiters,         \* asyncio.Lock._waiters of the suspending limiter (FIFO)
    ncalls,          \* number of top-level calls made so far
    kind,            \* [caller -> the limiter flavor it calls]: thread or task
    pc,              \* [caller -> position in the code]
    th               \* [caller -> frame: arguments, locals, and the call's log]

vars == <<now, built, request_bucket, token_bucket, lock, waiters, ncalls, kind, pc, th>>

(* ------------------------------ bounds -------------------------------- *)

\* The clock ticks freely up to MaxTime; after that it runs on from one
\* wake-up of a sleeping caller to the next.
MaxTime == 1

\* Number of top-level calls (limiter calls and wrapper calls) in one run.
MaxCalls == 2

\* Longest event sequence a remote stream delivers.
MaxEvents == 2

(* ----------------------------- constants ------------------------------ *)

\* tokens_per_second = tokens_per_minute / 60.0
SecondsPerMinute == 60

\* The RatelimitConfig the client is built from.
Config == [requests_per_second |-> 1, tokens_per_minute |-> 600]

\* Resolution of the model's clock: one tick refills one request.
TicksPerSecond == Config.requests_per_second

Callers == {1, 2}
None == 0
Flavors == {"sync", "async"}

\* The callers of one run are the threads of a threaded program or the
\* tasks of one event loop.
Populations == {[c \in Callers |-> l] : l \in Flavors}

\* Inputs of the calls.
ReqCosts == {1}
TokCosts == {0, 310}
Estimates == {310}

\* What the remote side answers: a response (or the data of a terminal
\* event) with or without usage.total_tokens, other events, errors.
\* shape: an object with a usage attribute, a dict, or anything else;
\* usage: missing, None, an object or a dict; total: total_tokens missing,
\* None or a number.
Payload(shape, usage, total, total_tokens) ==
    [shape |-> shape, usage |-> usage, total |-> total, total_tokens |-> total_tokens]
Responses ==
    {Payload("other", "absent", "absent", 0),
     Payload("object", "object", "int", 100),
     Payload("object", "object", "int", 400)}
DoneType == "conversation.response.done"
Events ==
    {[type |-> "message.output.delta", data |-> r] : r \in {r \in Responses : r.usage = "absent"}}
      \cup {[type |-> DoneType, data |-> r] : r \in Responses}
Errors == {"429", "500"}

\* No event: nothing taken from the stream, nothing in the consumer's hands.
NoEvent == [type |-> "none", data |-> Payload("other", "absent", "absent", 0)]

Min(a, b) == IF a <= b THEN a ELSE b
\* The sum of the two waits where their maximum is meant.
Sum(a, b) == a + b

Max(a, b) == IF a >= b THEN a ELSE b

(* --------------------------- rate_limiter.py -------------------------- *)

RateLimitState(available, max_tokens, refill_rate, last_update) ==
    [available |-> available, max_tokens |-> max_tokens,
     refill_rate |-> refill_rate, last_update |-> last_update]

\* RateLimiter.__init__ / AsyncRateLimiter.__init__: the request bucket.
\* refill_rate is kept per tick.
InitRequestBucket(requests_per_second, t) ==
    RateLimitState(requests_per_second, requests_per_second,
                   requests_per_second \div TicksPerSecond, t)

\* A faulty variant: the token bucket refills its whole capacity per second.
InitTokenBucketPerSecond(tokens_per_minute, t) ==
    RateLimitState(tokens_per_minute, tokens_per_minute,
                   tokens_per_minute \div TicksPerSecond, t)

\* RateLimiter.__init__ / AsyncRateLimiter.__init__: the token bucket.
InitTokenBucket(tokens_per_minute, t) ==
    RateLimitState(tokens_per_minute, tokens_per_minute,
                   (tokens_per_minute \div SecondsPerMinute) \div TicksPerSecond, t)

\* A refill that adds nothing for the time elapsed.
NoNewTokens(bucket, t) == 0

\* new_tokens = elapsed * bucket.refill_rate
NewTokens(bucket, t) == (t - bucket.last_update) * bucket.refill_rate

\* _refill: the value stored into bucket.available
RefilledAvailable(bucket, t) ==
    Min(bucket.max_tokens, bucket.available + NewTokens(bucket, t))

\* _refill(bucket) at clock reading t
Refill(bucket, t) ==
    [bucket EXCEPT !.available = RefilledAvailable(bucket, t),
                   !.last_update = t]

\* bucket.available -= tokens
Debit(bucket, tokens) ==
    [bucket EXCEPT !.available = bucket.available - tokens]

\* needed = tokens - bucket.available
Needed(available, tokens) == tokens - available

\* wait_time = needed / bucket.refill_rate, in ticks
WaitTime(needed, refill_rate) == needed \div refill_rate

\* if bucket.available >= tokens
Satisfiable(available, tokens) == available >= tokens

(* ------------------------------ frames -------------------------------- *)

NoFrame ==
    [op |-> "none",
     request_tokens |-> 0, token_count |-> 0,
     estimated |-> 0, actual |-> 0,
     total_wait |-> 0, wake |-> 0, reg |-> 0, waited |-> FALSE,
     result |-> "none", at |-> "none", events |-> 0, seen_done |-> FALSE,
     nreq |-> 0, ntok |-> 0, dreq |-> 0, dtok |-> 0, nrefund |-> 0,
     due_req |-> 0, due_tok |-> 0, refilled |-> 0, nremote |-> 0,
     spent_req |-> 0, spent_tok |-> 0, refunded |-> 0,
     previewed |-> FALSE, preview |-> 0, late |-> FALSE,
     base_req |-> 0, base_tok |-> 0, since |-> 0,
     cur |-> NoEvent, handed |-> NoEvent, nyield |-> 0]

NewFrame(op, r, k, est) ==
    [NoFrame EXCEPT !.op = op, !.request_tokens = r,
                    !.token_count = k, !.estimated = est]

Init ==
    /\ now = 0
    /\ built = [l \in Flavors |-> TRUE]
    /\ request_bucket =
          [l \in Flavors |-> InitRequestBucket(Config.requests_per_second, 0)]
    /\ token_bucket =
          [l \in Flavors |-> InitTokenBucket(Config.tokens_per_minute, 0)]
    /\ lock = [l \in Flavors |-> None]
    /\ waiters = <<>>
    /\ ncalls = 0
    /\ kind \in Populations
    /\ pc = [c \in Callers |-> "idle"]
    /\ th = [c \in Callers |-> NoFrame]

(* ------------------------------- clock -------------------------------- *)

Sleeping(c) == pc[c] \in {"acq_req_sleep", "acq_tok_sleep"}

\* The wake-up times still ahead of the clock.
PendingWakes == {th[c].wake : c \in {d \in Callers : Sleeping(d) /\ th[d].wake > now}}

\* The monotonic clock advances by one tick.
Tick ==
    /\ now < MaxTime
    /\ now' = now + 1
    /\ UNCHANGED <<request_bucket, token_bucket, lock, waiters, kind, pc, th, ncalls, built>>

\* Past the horizon of new calls the clock runs on to the next wake-up of a
\* sleeping caller.
SleepAdvance ==
    /\ now >= MaxTime
    /\ PendingWakes # {}
    /\ now' = CHOOSE t \in PendingWakes : \A u \in PendingWakes : t <= u
    /\ UNCHANGED <<request_bucket, token_bucket, lock, waiters, ncalls, kind, pc, th, built>>

(* ------------------------ direct limiter calls ------------------------ *)

\* A caller invokes limiter.acquire(request_tokens, token_count).
CallAcquire(c, r, k) ==
    /\ pc[c] = "idle"
    /\ ncalls < MaxCalls
    /\ ncalls' = ncalls + 1
    /\ th' = [th EXCEPT ![c] = NewFrame("acquire", r, k, 0)]
    /\ pc' = [pc EXCEPT ![c] = "acq_lock"]
    /\ UNCHANGED <<now, request_bucket, token_bucket, lock, waiters, kind, built>>

\* A caller invokes limiter.get_wait_time(request_tokens, token_count).
CallGetWaitTime(c, r, k) ==
    /\ pc[c] = "idle"
    /\ ncalls < MaxCalls
    /\ ncalls' = ncalls + 1
    /\ th' = [th EXCEPT ![c] = NewFrame("get_wait_time", r, k, 0)]
    /\ pc' = [pc EXCEPT ![c] = "gwt_lock"]
    /\ UNCHANGED <<now, request_bucket, token_bucket, lock, waiters, kind, built>>

(* ------------------- RateLimiter (thread-blocking) -------------------- *)

\* with self._lock:  (threading.Lock: any waiting thread may get it)
SyncLock(c) ==
    /\ pc[c] = "acq_lock"
    /\ kind[c] = "sync"
    /\ lock["sync"] = None
    /\ lock' = [lock EXCEPT !["sync"] = c]
    /\ pc' = [pc EXCEPT ![c] = "acq_req"]
    /\ UNCHANGED <<now, request_bucket, token_bucket, waiters, th, kind, ncalls, built>>

\* wait = self._acquire_request(request_tokens); total_wait += wait;
\* if wait > 0: time.sleep(wait)
SyncAcquireRequest(c) ==
    /\ pc[c] = "acq_req"
    /\ LET b == Refill(request_bucket["sync"], now)
           r == th[c].request_tokens
           wait == WaitTime(Needed(b.available, r), b.refill_rate)
       IN  IF Satisfiable(b.available, r)
           THEN /\ request_bucket' = [request_bucket EXCEPT !["sync"] = Debit(b, r)]
                /\ th' = [th EXCEPT ![c].nreq = @ + 1, ![c].dreq = @ + r]
                /\ pc' = [pc EXCEPT ![c] = "acq_tok_refill"]
           ELSE /\ request_bucket' = [request_bucket EXCEPT !["sync"] = b]
                /\ th' = [th EXCEPT ![c].total_wait = @ + wait,
                                    ![c].wake = IF wait > 0 THEN now + wait ELSE 0,
                                    ![c].due_req = now + wait]
                /\ pc' = [pc EXCEPT ![c] =
                            IF wait > 0 THEN "acq_req_sleep" ELSE "acq_tok_refill"]
    /\ UNCHANGED <<now, token_bucket, lock, waiters, kind, ncalls, built>>

\* A faulty variant: after the request sleep the caller checks the bucket
\* again and goes back to waiting when it is still short.
SyncRequestWakeRechecking(c) ==
    /\ pc[c] = "acq_req_sleep"
    /\ kind[c] = "sync"
    /\ now >= th[c].wake
    /\ LET b == Refill(request_bucket["sync"], now)
       IN  IF Satisfiable(b.available, th[c].request_tokens)
           THEN /\ request_bucket' = [request_bucket EXCEPT !["sync"] =
                                         Debit(b, th[c].request_tokens)]
                /\ th' = [th EXCEPT ![c].nreq = @ + 1, ![c].wake = 0,
                                    ![c].dreq = @ + th[c].request_tokens]
                /\ pc' = [pc EXCEPT ![c] = "acq_tok_refill"]
           ELSE /\ request_bucket' = [request_bucket EXCEPT !["sync"] = b]
                /\ th' = [th EXCEPT ![c].wake = 0]
                /\ pc' = [pc EXCEPT ![c] = "acq_req"]
    /\ UNCHANGED <<now, token_bucket, lock, waiters, kind, ncalls, built>>

\* time.sleep(wait) returns; self._refill(self._request_bucket);
\* self._request_bucket.available -= request_tokens
SyncRequestWake(c) ==
    /\ pc[c] = "acq_req_sleep"
    /\ kind[c] = "sync"
    /\ now >= th[c].wake
    /\ request_bucket' = [request_bucket EXCEPT !["sync"] =
                            Debit(Refill(@, now), th[c].request_tokens)]
    /\ th' = [th EXCEPT ![c].nreq = @ + 1, ![c].wake = 0,
                        ![c].dreq = @ + th[c].request_tokens]
    /\ pc' = [pc EXCEPT ![c] = "acq_tok_refill"]
    /\ UNCHANGED <<now, token_bucket, lock, waiters, kind, ncalls, built>>

\* self._refill(self._token_bucket), up to the read of bucket.available.
\* last_update is only ever accessed by the lock holder, so its write is
\* taken here, at the clock reading it stores.
SyncTokenRefillRead(c) ==
    /\ pc[c] \in {"acq_tok_refill", "gwt_tok_refill"}
    /\ th' = [th EXCEPT ![c].reg = RefilledAvailable(token_bucket["sync"], now),
                        ![c].since = token_bucket["sync"].last_update]
    /\ token_bucket' = [token_bucket EXCEPT !["sync"].last_update = now]
    /\ pc' = [pc EXCEPT ![c] =
                IF pc[c] = "acq_tok_refill" THEN "acq_tok_refill_wr"
                                            ELSE "gwt_tok_refill_wr"]
    /\ UNCHANGED <<now, request_bucket, lock, waiters, kind, ncalls, built>>

\* self._refill(self._token_bucket): the store into bucket.available
SyncTokenRefillWrite(c) ==
    /\ pc[c] \in {"acq_tok_refill_wr", "gwt_tok_refill_wr"}
    /\ token_bucket' = [token_bucket EXCEPT !["sync"].available = th[c].reg]
    /\ th' = [th EXCEPT ![c].reg = 0,
                        ![c].since = 0,
                        ![c].refilled = IF pc[c] = "gwt_tok_refill_wr"
                                        THEN th[c].reg ELSE 0]
    /\ pc' = [pc EXCEPT ![c] =
                IF pc[c] = "gwt_tok_refill_wr" THEN "gwt_check"
                ELSE IF th[c].waited THEN "acq_tok_debit" ELSE "acq_tok_check"]
    /\ UNCHANGED <<now, request_bucket, lock, waiters, kind, ncalls, built>>

\* _acquire_token: if self._token_bucket.available >= tokens
SyncTokenCheck(c) ==
    /\ pc[c] = "acq_tok_check"
    /\ LET b == token_bucket["sync"]
           k == th[c].token_count
       IN  IF Satisfiable(b.available, k)
           THEN /\ pc' = [pc EXCEPT ![c] = "acq_tok_debit"]
                /\ UNCHANGED th
           ELSE /\ pc' = [pc EXCEPT ![c] = "acq_tok_needed"]
                /\ th' = [th EXCEPT ![c].due_tok =
                            now + WaitTime(Needed(b.available, k), b.refill_rate)]
    /\ UNCHANGED <<now, request_bucket, token_bucket, lock, waiters, kind, ncalls, built>>

\* A faulty variant: the lock is given up for the time of the token sleep.
SyncTokenNeededUnlocked(c) ==
    /\ pc[c] = "acq_tok_needed"
    /\ LET b == token_bucket["sync"]
           wait == WaitTime(Needed(b.available, th[c].token_count), b.refill_rate)
       IN  /\ th' = [th EXCEPT ![c].total_wait = @ + wait,
                               ![c].wake = IF wait > 0 THEN now + wait ELSE 0]
           /\ pc' = [pc EXCEPT ![c] =
                       IF wait > 0 THEN "acq_tok_sleep" ELSE "acq_unlock"]
           /\ lock' = [lock EXCEPT !["sync"] = IF wait > 0 THEN None ELSE @]
    /\ UNCHANGED <<now, request_bucket, token_bucket, waiters, kind, ncalls, built>>

\* A faulty variant: acquire returns the larger of the two waits instead of
\* their sum.
SyncTokenNeededMax(c) ==
    /\ pc[c] = "acq_tok_needed"
    /\ LET b == token_bucket["sync"]
           wait == WaitTime(Needed(b.available, th[c].token_count), b.refill_rate)
       IN  /\ th' = [th EXCEPT ![c].total_wait = Max(@, wait),
                               ![c].wake = IF wait > 0 THEN now + wait ELSE 0]
           /\ pc' = [pc EXCEPT ![c] =
                       IF wait > 0 THEN "acq_tok_sleep" ELSE "acq_unlock"]
    /\ UNCHANGED <<now, request_bucket, token_bucket, lock, waiters, kind, ncalls, built>>

\* _acquire_token: needed = tokens - available; wait_time = needed / rate;
\* acquire: total_wait += wait; if wait > 0: time.sleep(wait)
SyncTokenNeeded(c) ==
    /\ pc[c] = "acq_tok_needed"
    /\ LET b == token_bucket["sync"]
           wait == WaitTime(Needed(b.available, th[c].token_count), b.refill_rate)
       IN  /\ th' = [th EXCEPT ![c].total_wait = @ + wait,
                               ![c].wake = IF wait > 0 THEN now + wait ELSE 0]
           /\ pc' = [pc EXCEPT ![c] =
                       IF wait > 0 THEN "acq_tok_sleep" ELSE "acq_unlock"]
    /\ UNCHANGED <<now, request_bucket, token_bucket, lock, waiters, kind, ncalls, built>>

\* time.sleep(wait) returns
SyncTokenWake(c) ==
    /\ pc[c] = "acq_tok_sleep"
    /\ kind[c] = "sync"
    /\ now >= th[c].wake
    /\ th' = [th EXCEPT ![c].waited = TRUE, ![c].wake = 0]
    /\ pc' = [pc EXCEPT ![c] = "acq_tok_refill"]
    /\ UNCHANGED <<now, request_bucket, token_bucket, lock, waiters, kind, ncalls, built>>

\* self._token_bucket.available -= tokens: the read
SyncTokenDebitRead(c) ==
    /\ pc[c] = "acq_tok_debit"
    /\ th' = [th EXCEPT ![c].reg =
                Debit(token_bucket["sync"], th[c].token_count).available]
    /\ pc' = [pc EXCEPT ![c] = "acq_tok_debit_wr"]
    /\ UNCHANGED <<now, request_bucket, token_bucket, lock, waiters, kind, ncalls, built>>

\* self._token_bucket.available -= tokens: the store
SyncTokenDebitWrite(c) ==
    /\ pc[c] = "acq_tok_debit_wr"
    /\ token_bucket' = [token_bucket EXCEPT !["sync"].available = th[c].reg]
    /\ th' = [th EXCEPT ![c].ntok = @ + 1, ![c].reg = 0,
                        ![c].dtok = @ + (token_bucket["sync"].available - th[c].reg)]
    /\ pc' = [pc EXCEPT ![c] = "acq_unlock"]
    /\ UNCHANGED <<now, request_bucket, lock, waiters, kind, ncalls, built>>

\* A faulty variant: acquire returns without releasing the lock.
SyncUnlockKeepingLock(c) ==
    /\ pc[c] = "acq_unlock"
    /\ lock["sync"] = c
    /\ pc' = [pc EXCEPT ![c] = "acq_ret"]
    /\ UNCHANGED <<now, request_bucket, token_bucket, lock, waiters, th, kind, ncalls, built>>

\* leaving `with self._lock`; return total_wait
SyncUnlock(c) ==
    /\ pc[c] = "acq_unlock"
    /\ lock["sync"] = c
    /\ lock' = [lock EXCEPT !["sync"] = None]
    /\ pc' = [pc EXCEPT ![c] = "acq_ret"]
    /\ UNCHANGED <<now, request_bucket, token_bucket, waiters, th, kind, ncalls, built>>

\* get_wait_time: with self._lock: self._refill(self._request_bucket)
SyncGwtLock(c) ==
    /\ pc[c] = "gwt_lock"
    /\ kind[c] = "sync"
    /\ lock["sync"] = None
    /\ lock' = [lock EXCEPT !["sync"] = c]
    /\ request_bucket' = [request_bucket EXCEPT !["sync"] = Refill(@, now)]
    /\ pc' = [pc EXCEPT ![c] = "gwt_tok_refill"]
    /\ UNCHANGED <<now, token_bucket, waiters, th, kind, ncalls, built>>

\* get_wait_time: wait_request; if self._token_bucket.available < token_count
SyncGwtCheck(c) ==
    /\ pc[c] = "gwt_check"
    /\ LET rb == request_bucket["sync"]
           r == th[c].request_tokens
           wait_request == IF rb.available < r
                           THEN WaitTime(Needed(rb.available, r), rb.refill_rate)
                           ELSE 0
       IN  /\ th' = [th EXCEPT ![c].total_wait = wait_request]
           /\ pc' = [pc EXCEPT ![c] =
                       IF token_bucket["sync"].available < th[c].token_count
                       THEN "gwt_tok_needed" ELSE "gwt_unlock"]
    /\ UNCHANGED <<now, request_bucket, token_bucket, lock, waiters, kind, ncalls, built>>

\* get_wait_time: needed = token_count - available; wait_token = needed / rate;
\* the value returned is max(wait_request, wait_token)
SyncGwtTokenNeeded(c) ==
    /\ pc[c] = "gwt_tok_needed"
    /\ LET b == token_bucket["sync"]
           wait_token == WaitTime(Needed(b.available, th[c].token_count),
                                  b.refill_rate)
       IN  th' = [th EXCEPT ![c].total_wait = Max(@, wait_token)]
    /\ pc' = [pc EXCEPT ![c] = "gwt_unlock"]
    /\ UNCHANGED <<now, request_bucket, token_bucket, lock, waiters, kind, ncalls, built>>

\* get_wait_time: leaving `with self._lock`; return
SyncGwtUnlock(c) ==
    /\ pc[c] = "gwt_unlock"
    /\ lock["sync"] = c
    /\ lock' = [lock EXCEPT !["sync"] = None]
    /\ pc' = [pc EXCEPT ![c] = "gwt_ret"]
    /\ UNCHANGED <<now, request_bucket, token_bucket, waiters, th, kind, ncalls, built>>

(* ----------------- AsyncRateLimiter (task-suspending) ------------------ *)

\* asyncio.Lock.acquire() returns at once: unlocked and nobody queued, or
\* this task is the queued waiter that release() woke.
AsyncLockFree(c, at) ==
    /\ kind[c] = "async"
    /\ lock["async"] = None
    /\ \/ pc[c] = at /\ waiters = <<>>
       \/ pc[c] = "lock_wait" /\ th[c].at = at /\ waiters # <<>> /\ Head(waiters) = c

\* The waiter queue once c holds the lock.
Dequeued(c) == IF pc[c] = "lock_wait" THEN Tail(waiters) ELSE waiters

\* async with self._lock: the lock is taken or another task is queued for
\* it, so the task joins asyncio.Lock._waiters and suspends.
AsyncLockWait(c) ==
    /\ pc[c] \in {"acq_lock", "gwt_lock", "refund_lock"}
    /\ kind[c] = "async"
    /\ lock["async"] # None \/ waiters # <<>>
    /\ waiters' = Append(waiters, c)
    /\ th' = [th EXCEPT ![c].at = pc[c]]
    /\ pc' = [pc EXCEPT ![c] = "lock_wait"]
    /\ UNCHANGED <<now, request_bucket, token_bucket, lock, kind, ncalls, built>>

\* AsyncRateLimiter.acquire, the token-bucket half, run by task c from frame
\* f without suspending until the sleep or the return.
AsyncTokenPart(c, f) ==
    LET b == Refill(token_bucket["async"], now)
        k == f.token_count
        wait_time == WaitTime(Needed(b.available, k), b.refill_rate)
    IN  IF Satisfiable(b.available, k)
        THEN /\ token_bucket' = [token_bucket EXCEPT !["async"] = Debit(b, k)]
             /\ lock' = [lock EXCEPT !["async"] = None]
             /\ th' = [th EXCEPT ![c] = [f EXCEPT !.ntok = @ + 1, !.dtok = @ + k,
                                                  !.at = "none"]]
             /\ pc' = [pc EXCEPT ![c] = "acq_ret"]
        ELSE /\ token_bucket' = [token_bucket EXCEPT !["async"] = b]
             /\ lock' = [lock EXCEPT !["async"] = c]
             /\ th' = [th EXCEPT ![c] = [f EXCEPT !.total_wait = @ + wait_time,
                                                  !.wake = now + wait_time,
                                                  !.due_tok = now + wait_time,
                                                  !.at = "none"]]
             /\ pc' = [pc EXCEPT ![c] = "acq_tok_sleep"]

\* AsyncRateLimiter.acquire from `async with self._lock` to its first
\* suspension (or to the return when neither bucket has to wait).
AsyncAcquireEnter(c) ==
    /\ AsyncLockFree(c, "acq_lock")
    /\ waiters' = Dequeued(c)
    /\ LET b == Refill(request_bucket["async"], now)
           r == th[c].request_tokens
           wait_time == WaitTime(Needed(b.available, r), b.refill_rate)
       IN  IF Satisfiable(b.available, r)
           THEN /\ request_bucket' = [request_bucket EXCEPT !["async"] = Debit(b, r)]
                /\ AsyncTokenPart(c, [th[c] EXCEPT !.nreq = @ + 1, !.dreq = @ + r])
           ELSE /\ request_bucket' = [request_bucket EXCEPT !["async"] = b]
                /\ lock' = [lock EXCEPT !["async"] = c]
                /\ th' = [th EXCEPT ![c].total_wait = @ + wait_time,
                                    ![c].wake = now + wait_time,
                                    ![c].due_req = now + wait_time,
                                    ![c].at = "none"]
                /\ pc' = [pc EXCEPT ![c] = "acq_req_sleep"]
                /\ UNCHANGED token_bucket
    /\ UNCHANGED <<now, kind, ncalls, built>>

\* await asyncio.sleep(wait_time) returns for the request bucket: refill,
\* debit, then the token-bucket half.
AsyncRequestWake(c) ==
    /\ pc[c] = "acq_req_sleep"
    /\ kind[c] = "async"
    /\ now >= th[c].wake
    /\ request_bucket' = [request_bucket EXCEPT !["async"] =
                            Debit(Refill(@, now), th[c].request_tokens)]
    /\ AsyncTokenPart(c, [th[c] EXCEPT !.nreq = @ + 1, !.wake = 0,
                                        !.dreq = @ + th[c].request_tokens])
    /\ UNCHANGED <<now, waiters, kind, ncalls, built>>

\* A faulty variant: after the token wait the debit is made without the
\* refill.
AsyncTokenWakeStale(c) ==
    /\ pc[c] = "acq_tok_sleep"
    /\ kind[c] = "async"
    /\ now >= th[c].wake
    /\ token_bucket' = [token_bucket EXCEPT !["async"] =
                          Debit(@, th[c].token_count)]
    /\ lock' = [lock EXCEPT !["async"] = None]
    /\ th' = [th EXCEPT ![c].ntok = @ + 1, ![c].wake = 0, ![c].waited = TRUE,
                        ![c].dtok = @ + th[c].token_count]
    /\ pc' = [pc EXCEPT ![c] = "acq_ret"]
    /\ UNCHANGED <<now, request_bucket, waiters, kind, ncalls, built>>

\* await asyncio.sleep(wait_time) returns for the token bucket: refill,
\* debit, release the lock, return total_wait.
AsyncTokenWake(c) ==
    /\ pc[c] = "acq_tok_sleep"
    /\ kind[c] = "async"
    /\ now >= th[c].wake
    /\ token_bucket' = [token_bucket EXCEPT !["async"] =
                          Debit(Refill(@, now), th[c].token_count)]
    /\ lock' = [lock EXCEPT !["async"] = None]
    /\ th' = [th EXCEPT ![c].ntok = @ + 1, ![c].wake = 0, ![c].waited = TRUE,
                        ![c].dtok = @ + th[c].token_count]
    /\ pc' = [pc EXCEPT ![c] = "acq_ret"]
    /\ UNCHANGED <<now, request_bucket, waiters, kind, ncalls, built>>

\* A get_wait_time that takes the credit it previews when it is there.
AsyncGetWaitTimeDebiting(c) ==
    /\ AsyncLockFree(c, "gwt_lock")
    /\ waiters' = Dequeued(c)
    /\ LET rb == Refill(request_bucket["async"], now)
           tb == Refill(token_bucket["async"], now)
           r == th[c].request_tokens
           k == th[c].token_count
           wait_request == IF rb.available < r
                           THEN WaitTime(Needed(rb.available, r), rb.refill_rate)
                           ELSE 0
           wait_token == IF tb.available < k
                         THEN WaitTime(Needed(tb.available, k), tb.refill_rate)
                         ELSE 0
       IN  /\ request_bucket' = [request_bucket EXCEPT !["async"] =
                                    IF wait_request = 0 THEN Debit(rb, r) ELSE rb]
           /\ token_bucket' = [token_bucket EXCEPT !["async"] = tb]
           /\ th' = [th EXCEPT ![c].total_wait = Max(wait_request, wait_token),
                               ![c].refilled = tb.available,
                               ![c].at = "none"]
    /\ pc' = [pc EXCEPT ![c] = "gwt_ret"]
    /\ UNCHANGED <<now, lock, kind, ncalls, built>>

\* AsyncRateLimiter.get_wait_time: the whole body runs without suspending.
AsyncGetWaitTime(c) ==
    /\ AsyncLockFree(c, "gwt_lock")
    /\ waiters' = Dequeued(c)
    /\ LET rb == Refill(request_bucket["async"], now)
           tb == Refill(token_bucket["async"], now)
           r == th[c].request_tokens
           k == th[c].token_count
           wait_request == IF rb.available < r
                           THEN WaitTime(Needed(rb.available, r), rb.refill_rate)
                           ELSE 0
           wait_token == IF tb.available < k
                         THEN WaitTime(Needed(tb.available, k), tb.refill_rate)
                         ELSE 0
       IN  /\ request_bucket' = [request_bucket EXCEPT !["async"] = rb]
           /\ token_bucket' = [token_bucket EXCEPT !["async"] = tb]
           /\ th' = [th EXCEPT ![c].total_wait = Max(wait_request, wait_token),
                               ![c].refilled = tb.available,
                               ![c].at = "none"]
    /\ pc' = [pc EXCEPT ![c] = "gwt_ret"]
    /\ UNCHANGED <<now, lock, kind, ncalls, built>>

(* ------------------------------ client.py ----------------------------- *)

\* _extract_usage(response), the body of its try block.  With a usage
\* attribute: getattr(response.usage, "total_tokens", 0) or 0, which is 0
\* for a usage of None and for a usage that is a dict.  A dict:
\* (response.get("usage") or {}).get("total_tokens", 0) or 0, which raises
\* for a usage that is an object without get.  Anything else falls through.
UsageLookup(response) ==
    IF response.shape = "object"
    THEN [raised |-> FALSE,
          value |-> IF response.usage = "object" /\ response.total = "int"
                    THEN response.total_tokens ELSE 0]
    ELSE IF response.shape = "dict"
    THEN IF response.usage = "object"
         THEN [raised |-> TRUE, value |-> 0]
         ELSE [raised |-> FALSE,
               value |-> IF response.usage = "dict" /\ response.total = "int"
                         THEN response.total_tokens ELSE 0]
    ELSE [raised |-> FALSE, value |-> 0]

\* _extract_usage(response): except Exception: pass; return 0
ExtractUsage(response) ==
    LET found == UsageLookup(response)
    IN  IF found.raised THEN 0 ELSE found.value

\* _refund_tokens / _refund_tokens_async: if actual_tokens < estimated
ShouldRefund(estimated, actual_tokens) == actual_tokens < estimated

\* A faulty variant: the refund gives back the whole estimate.
RefundedInFull(available, estimated, actual_tokens) ==
    available + estimated

\* _refund_tokens / _refund_tokens_async: available += estimated - actual_tokens
Refunded(available, estimated, actual_tokens) ==
    available + (estimated - actual_tokens)

\* _handle_error(error)
HandleError(error) ==
    IF error = "429" THEN "RateLimitExceeded" ELSE "MistralRatelimitError"

\* A faulty variant: every event is taken for the terminal one.
IsTerminalAnyEvent(event) == event \in Events

\* event_type == "conversation.response.done"
IsTerminal(event) == event.type = DoneType

\* Where the wrapper goes on once the refund is over: `return response` of
\* start, `yield event` of _process_stream_response.
AfterRefund(op) == IF op = "start" THEN "done" ELSE "yielded"

\* `yield event`: the event taken from the stream is handed to the consumer.
Yielded(f) ==
    [f EXCEPT !.handed = f.cur, !.cur = NoEvent, !.nyield = @ + 1]

\* The frame once the refund is over: start returns the response,
\* _process_stream_response goes on to `yield event`.
Refunding(f, n) ==
    LET g == [f EXCEPT !.nrefund = @ + n, !.reg = 0, !.at = "none",
                       !.actual = IF f.op = "start" THEN f.actual ELSE 0,
                       !.result = IF f.op = "start" THEN "ok" ELSE f.result]
    IN  IF f.op = "start" THEN g ELSE Yielded(g)

\* Entry of _refund_tokens(estimated, actual) for a caller of flavor l.
RefundEntry(l, f, actual) ==
    IF ShouldRefund(f.estimated, actual)
    THEN IF l = "sync" THEN "refund_rd" ELSE "refund_lock"
    ELSE AfterRefund(f.op)

\* A faulty variant: start goes to the remote call without acquiring.
CallStartNoAcquire(c, est) ==
    /\ pc[c] = "idle"
    /\ ncalls < MaxCalls
    /\ ncalls' = ncalls + 1
    /\ th' = [th EXCEPT ![c] = NewFrame("start", 1, est, est)]
    /\ pc' = [pc EXCEPT ![c] = "acq_ret"]
    /\ UNCHANGED <<now, request_bucket, token_bucket, lock, waiters, kind, built>>

\* start(inputs): estimated = self._estimate_tokens(inputs) + 100;
\* acquire(request_tokens=1, token_count=estimated)
CallStart(c, est) ==
    /\ pc[c] = "idle"
    /\ ncalls < MaxCalls
    /\ ncalls' = ncalls + 1
    /\ th' = [th EXCEPT ![c] = NewFrame("start", 1, est, est)]
    /\ pc' = [pc EXCEPT ![c] = "acq_lock"]
    /\ UNCHANGED <<now, request_bucket, token_bucket, lock, waiters, kind, built>>

\* start: the remote call returns a response; actual = _extract_usage(response)
RemoteRespond(c, response) ==
    /\ pc[c] = "acq_ret"
    /\ th[c].op = "start"
    /\ LET actual == ExtractUsage(response)
           to == RefundEntry(kind[c], th[c], actual)
       IN  /\ th' = [th EXCEPT ![c] =
                       IF to = "done"
                       THEN Refunding([@ EXCEPT !.actual = actual,
                                                !.nremote = @ + 1], 0)
                       ELSE [@ EXCEPT !.actual = actual, !.nremote = @ + 1]]
           /\ pc' = [pc EXCEPT ![c] = to]
    /\ UNCHANGED <<now, request_bucket, token_bucket, lock, waiters, kind, ncalls, built>>

\* A faulty variant: the except clause gives the estimate back before it
\* raises.
RemoteRaiseRefunding(c, error) ==
    /\ pc[c] = "acq_ret"
    /\ th[c].op \in {"start", "start_stream"}
    /\ token_bucket' = [token_bucket EXCEPT ![kind[c]].available =
                          Refunded(@, th[c].estimated, 0)]
    /\ th' = [th EXCEPT ![c].result = HandleError(error), ![c].nrefund = @ + 1,
                        ![c].nremote = @ + 1]
    /\ pc' = [pc EXCEPT ![c] = "done"]
    /\ UNCHANGED <<now, request_bucket, lock, waiters, kind, ncalls, built>>

\* A faulty variant: after a rate-limit (429) error the wrapper acquires and
\* calls again instead of raising.
RemoteRaiseRetrying(c, error) ==
    /\ pc[c] = "acq_ret"
    /\ th[c].op \in {"start", "start_stream"}
    /\ th' = [th EXCEPT ![c].result = IF error = "429" THEN @ ELSE HandleError(error),
                        ![c].nremote = @ + 1]
    /\ pc' = [pc EXCEPT ![c] = IF error = "429" THEN "acq_lock" ELSE "done"]
    /\ UNCHANGED <<now, request_bucket, token_bucket, lock, waiters, kind, ncalls, built>>

\* The remote call (start, or opening the stream) raises:
\* except Exception as e: raise self._handle_error(e) from e
RemoteRaise(c, error) ==
    /\ pc[c] = "acq_ret"
    /\ th[c].op \in {"start", "start_stream"}
    /\ th' = [th EXCEPT ![c].result = HandleError(error), ![c].nremote = @ + 1]
    /\ pc' = [pc EXCEPT ![c] = "done"]
    /\ UNCHANGED <<now, request_bucket, token_bucket, lock, waiters, kind, ncalls, built>>

\* _refund_tokens: self._rate_limiter._token_bucket.available += ...: the
\* read.  No lock is taken.
SyncRefundRead(c) ==
    /\ pc[c] = "refund_rd"
    /\ th' = [th EXCEPT ![c].reg =
                Refunded(token_bucket["sync"].available, th[c].estimated, th[c].actual)]
    /\ pc' = [pc EXCEPT ![c] = "refund_wr"]
    /\ UNCHANGED <<now, request_bucket, token_bucket, lock, waiters, kind, ncalls, built>>

\* A faulty variant: the blocking wrapper's refund is stored into the
\* suspending limiter's token bucket.
SyncRefundWriteAsync(c) ==
    /\ pc[c] = "refund_wr"
    /\ token_bucket' = [token_bucket EXCEPT !["async"].available = th[c].reg]
    /\ th' = [th EXCEPT ![c] = Refunding(@, 1)]
    /\ pc' = [pc EXCEPT ![c] = AfterRefund(th[c].op)]
    /\ UNCHANGED <<now, request_bucket, lock, waiters, kind, ncalls, built>>

\* _refund_tokens: the store into available
SyncRefundWrite(c) ==
    /\ pc[c] = "refund_wr"
    /\ token_bucket' = [token_bucket EXCEPT !["sync"].available = th[c].reg]
    /\ th' = [th EXCEPT ![c] = Refunding(@, 1)]
    /\ pc' = [pc EXCEPT ![c] = AfterRefund(th[c].op)]
    /\ UNCHANGED <<now, request_bucket, lock, waiters, kind, ncalls, built>>

\* _refund_tokens_async: async with self._async_rate_limiter._lock:
\*     self._async_rate_limiter._token_bucket.available += ...
AsyncRefund(c) ==
    /\ AsyncLockFree(c, "refund_lock")
    /\ waiters' = Dequeued(c)
    /\ token_bucket' = [token_bucket EXCEPT !["async"].available =
                          Refunded(@, th[c].estimated, th[c].actual)]
    /\ th' = [th EXCEPT ![c] = Refunding(@, 1)]
    /\ pc' = [pc EXCEPT ![c] = AfterRefund(th[c].op)]
    /\ UNCHANGED <<now, request_bucket, lock, kind, ncalls, built>>

\* A faulty variant: the body of start_stream starts to run at the call.
CallStartStreamEager(c, est) ==
    /\ pc[c] = "idle"
    /\ ncalls < MaxCalls
    /\ ncalls' = ncalls + 1
    /\ th' = [th EXCEPT ![c] = NewFrame("start_stream", 1, est, est)]
    /\ pc' = [pc EXCEPT ![c] = "acq_lock"]
    /\ UNCHANGED <<now, request_bucket, token_bucket, lock, waiters, kind, built>>

\* start_stream(inputs) is a generator function: the call only creates the
\* generator.
CallStartStream(c, est) ==
    /\ pc[c] = "idle"
    /\ ncalls < MaxCalls
    /\ ncalls' = ncalls + 1
    /\ th' = [th EXCEPT ![c] = NewFrame("start_stream", 1, est, est)]
    /\ pc' = [pc EXCEPT ![c] = "gen_created"]
    /\ UNCHANGED <<now, request_bucket, token_bucket, lock, waiters, kind, built>>

\* The consumer asks the generator for the next event: the first time the
\* body starts (estimate, acquire), later it resumes after `yield event`.
ConsumerNext(c) ==
    /\ pc[c] \in {"gen_created", "yielded"}
    /\ pc' = [pc EXCEPT ![c] = IF pc[c] = "gen_created" THEN "acq_lock" ELSE "stream"]
    /\ th' = [th EXCEPT ![c].handed = NoEvent]
    /\ UNCHANGED <<now, request_bucket, token_bucket, lock, waiters, kind, ncalls, built>>

\* The consumer drops the generator: never started, or closed at a yield
\* (GeneratorExit is no Exception, so the except clause does not run).
ConsumerAbandon(c) ==
    /\ pc[c] \in {"gen_created", "yielded"}
    /\ th' = [th EXCEPT ![c].result = "abandoned"]
    /\ pc' = [pc EXCEPT ![c] = "done"]
    /\ UNCHANGED <<now, request_bucket, token_bucket, lock, waiters, kind, ncalls, built>>

\* stream = self._client.beta.conversations.start_stream(**kwargs)
StreamOpen(c) ==
    /\ pc[c] = "acq_ret"
    /\ th[c].op = "start_stream"
    /\ th' = [th EXCEPT ![c].nremote = @ + 1]
    /\ pc' = [pc EXCEPT ![c] = "stream"]
    /\ UNCHANGED <<now, request_bucket, token_bucket, lock, waiters, kind, ncalls, built>>

\* A faulty variant: every event is handed to the consumer as soon as it is
\* taken from the stream, the terminal one before any refund.
StreamEventYieldingFirst(c, event) ==
    /\ pc[c] = "stream"
    /\ th[c].events < MaxEvents
    /\ th' = [th EXCEPT ![c] =
                Yielded([@ EXCEPT !.events = @ + 1, !.cur = event,
                                  !.seen_done = IsTerminal(event)])]
    /\ pc' = [pc EXCEPT ![c] = "yielded"]
    /\ UNCHANGED <<now, request_bucket, token_bucket, lock, waiters, kind, ncalls, built>>

\* _process_stream_response: `for event in stream` delivers an event; on
\* the terminal event: actual = _extract_usage(data); refund; yield event
StreamEvent(c, event) ==
    /\ pc[c] = "stream"
    /\ th[c].events < MaxEvents
    /\ LET actual == ExtractUsage(event.data)
           f == [th[c] EXCEPT !.events = @ + 1, !.cur = event]
       IN  IF IsTerminal(event)
           THEN /\ th' = [th EXCEPT ![c] =
                            IF ShouldRefund(f.estimated, actual)
                            THEN [f EXCEPT !.seen_done = (event.type = DoneType),
                                           !.actual = actual]
                            ELSE Yielded([f EXCEPT !.seen_done = (event.type = DoneType),
                                                   !.actual = 0])]
                /\ pc' = [pc EXCEPT ![c] = RefundEntry(kind[c], f, actual)]
           ELSE /\ th' = [th EXCEPT ![c] = Yielded(f)]
                /\ pc' = [pc EXCEPT ![c] = "yielded"]
    /\ UNCHANGED <<now, request_bucket, token_bucket, lock, waiters, kind, ncalls, built>>

\* The remote stream is exhausted: the generator returns.
StreamEnd(c) ==
    /\ pc[c] = "stream"
    /\ th' = [th EXCEPT ![c].result = "ok"]
    /\ pc' = [pc EXCEPT ![c] = "done"]
    /\ UNCHANGED <<now, request_bucket, token_bucket, lock, waiters, kind, ncalls, built>>

\* The remote stream raises while it is iterated:
\* except Exception as e: raise self._handle_error(e) from e
StreamRaise(c, error) ==
    /\ pc[c] = "stream"
    /\ th' = [th EXCEPT ![c].result = HandleError(error)]
    /\ pc' = [pc EXCEPT ![c] = "done"]
    /\ UNCHANGED <<now, request_bucket, token_bucket, lock, waiters, kind, ncalls, built>>

(* ------------------------------ returns ------------------------------- *)

\* The caller has the outcome of its call: the value acquire or
\* get_wait_time returned, the wrapper's response, error or finished stream.
Return(c) ==
    /\ \/ pc[c] = "acq_ret" /\ th[c].op = "acquire"
       \/ pc[c] = "gwt_ret"
       \/ pc[c] = "done"
    /\ pc' = [pc EXCEPT ![c] = "idle"]
    /\ th' = [th EXCEPT ![c] = NoFrame]
    /\ UNCHANGED <<now, request_bucket, token_bucket, lock, waiters, kind, ncalls, built>>

(* --------------------------- specification ---------------------------- *)

\* The clock.
Time == Tick \/ SleepAdvance

\* The steps inside acquire, of either limiter.
AcquireSteps(c) ==
    \/ SyncLock(c)
    \/ SyncAcquireRequest(c)
    \/ SyncRequestWake(c)
    \/ SyncTokenRefillRead(c)
    \/ SyncTokenRefillWrite(c)
    \/ SyncTokenCheck(c)
    \/ SyncTokenNeeded(c)
    \/ SyncTokenWake(c)
    \/ SyncTokenDebitRead(c)
    \/ SyncTokenDebitWrite(c)
    \/ SyncUnlock(c)
    \/ AsyncLockWait(c)
    \/ AsyncAcquireEnter(c)
    \/ AsyncRequestWake(c)
    \/ AsyncTokenWake(c)

\* The steps inside get_wait_time, of either limiter.
GetWaitTimeSteps(c) ==
    \/ SyncGwtLock(c)
    \/ SyncGwtCheck(c)
    \/ SyncGwtTokenNeeded(c)
    \/ SyncGwtUnlock(c)
    \/ AsyncGetWaitTime(c)

\* The steps inside _refund_tokens / _refund_tokens_async.
RefundSteps(c) ==
    \/ SyncRefundRead(c)
    \/ SyncRefundWrite(c)
    \/ AsyncRefund(c)

\* Limiter calls and the non-streaming wrapper.
Next ==
    \/ Time
    \/ \E c \in Callers, r \in ReqCosts, k \in TokCosts :
          \/ CallAcquire(c, r, k)
          \/ CallGetWaitTime(c, r, k)
    \/ \E c \in Callers, est \in Estimates : CallStart(c, est)
    \/ \E c \in Callers :
          \/ AcquireSteps(c)
          \/ GetWaitTimeSteps(c)
          \/ RefundSteps(c)
          \/ Return(c)
    \/ \E c \in Callers, response \in Responses : RemoteRespond(c, response)
    \/ \E c \in Callers, error \in Errors : RemoteRaise(c, error)

Spec == Init /\ [][Next]_vars

\* The callers that consume streams; the others call acquire directly.
Consumers == {c \in Callers : \A d \in Callers : c <= d}

\* The streaming wrapper, beside direct acquire calls.
StreamNext ==
    \/ Time
    \/ \E c \in Consumers, est \in Estimates : CallStartStream(c, est)
    \/ \E c \in Callers \ Consumers, r \in ReqCosts, k \in TokCosts :
          CallAcquire(c, r, k)
    \/ \E c \in Callers :
          \/ AcquireSteps(c)
          \/ RefundSteps(c)
          \/ ConsumerNext(c)
          \/ ConsumerAbandon(c)
          \/ StreamOpen(c)
          \/ StreamEnd(c)
          \/ Return(c)
    \/ \E c \in Callers, event \in Events : StreamEvent(c, event)
    \/ \E c \in Callers, error \in Errors :
          \/ RemoteRaise(c, error)
          \/ StreamRaise(c, error)

StreamSpec == Init /\ [][StreamNext]_vars

(* ------------------------------ properties ---------------------------- *)

\* Caller c takes the step.
Stepped(c) == pc'[c] # pc[c]

\* Caller c is inside acquire, between its request debit and its token debit.
BetweenDebits(c) ==
    /\ lock[kind[c]] = c
    /\ th[c].op \in {"acquire", "start", "start_stream"}
    /\ th[c].nreq = 1
    /\ th[c].ntok = 0

\* The positions from which a caller's next step reads or writes a bucket.
\* A task's step runs from the lock to the next await, so it counts from the
\* lock on unless the step only queues the task.
AccessPcs(l) ==
    {"acq_req", "acq_req_sleep", "acq_tok_refill", "acq_tok_refill_wr",
     "acq_tok_check", "acq_tok_needed", "acq_tok_debit", "acq_tok_debit_wr",
     "gwt_tok_refill", "gwt_tok_refill_wr", "gwt_check", "gwt_tok_needed",
     "refund_rd", "refund_wr"}
      \cup (IF l = "sync" THEN {"gwt_lock"}
            ELSE {"acq_lock", "gwt_lock", "refund_lock", "lock_wait", "acq_tok_sleep"})

\* Caller d's step reads or writes a bucket of its limiter.
Accesses(d) ==
    /\ Stepped(d)
    /\ pc[d] \in AccessPcs(kind[d])
    /\ pc'[d] # "lock_wait"

\* Caller c runs its step holding its limiter's lock: it holds it already,
\* or the step starts by taking it.
LockedStep(c) ==
    \/ lock[kind[c]] = c
    \/ lock'[kind[c]] = c
    \/ \E at \in {"acq_lock", "gwt_lock", "refund_lock"} : AsyncLockFree(c, at)

\* Some bucket of limiter l changes in the step.
Mutated(l) ==
    \/ request_bucket'[l] # request_bucket[l]
    \/ token_bucket'[l] # token_bucket[l]

\* C1: in every reachable state, each bucket of each limiter has
\* 0 <= available <= max_tokens.
C1_AvailableWithinCapacity ==
    \A l \in Flavors :
        /\ 0 <= request_bucket[l].available
        /\ request_bucket[l].available <= request_bucket[l].max_tokens
        /\ 0 <= token_bucket[l].available
        /\ token_bucket[l].available <= token_bucket[l].max_tokens

\* C2: an acquire(r, k) that has returned has debited the request bucket by
\* exactly r and the token bucket by exactly k, each exactly once.
C2_ReturnedAcquireDebitedOnce ==
    \A c \in Callers :
        pc[c] = "acq_ret" =>
            /\ th[c].nreq = 1
            /\ th[c].dreq = th[c].request_tokens
            /\ th[c].ntok = 1
            /\ th[c].dtok = th[c].token_count

\* C3: between an acquire call's request debit and its token debit no other
\* call on the same limiter reads or writes either bucket.
C3_DebitPairAtomic ==
    [][\A c, d \in Callers :
          (c # d /\ kind[c] = kind[d] /\ BetweenDebits(c)) => ~Accesses(d)]_vars

\* C4: every step that changes a bucket of a limiter is taken by a caller
\* that holds that limiter's lock.
C4_MutationsUnderLock ==
    [][\A l \in Flavors :
          Mutated(l) => \E c \in Callers : kind[c] = l /\ Stepped(c) /\ LockedStep(c)]_vars

\* C5: a refund of x to a token bucket with available a and capacity c
\* leaves available = min(c, a + x).
C5_RefundCapped ==
    [][\A c \in Callers :
          th'[c].nrefund = th[c].nrefund + 1 =>
              LET b == token_bucket[kind[c]]
                  x == th[c].estimated - th[c].actual
              IN  token_bucket'[kind[c]].available = Min(b.max_tokens, b.available + x)]_vars

\* The positions inside _refund_tokens / _refund_tokens_async.
RefundPcs == {"refund_rd", "refund_wr", "refund_lock"}

\* Caller c is at, or queued for, the refund of its call.
InRefund(c) ==
    \/ pc[c] \in RefundPcs
    \/ pc[c] = "lock_wait" /\ th[c].at = "refund_lock"

\* What _handle_error reports.
ErrorResults == {"RateLimitExceeded", "MistralRatelimitError"}

\* C6: reconciliation only credits.  The step that completes a refund
\* raises the token bucket by estimated - actual, with actual < estimated;
\* every other step of the reconciliation (usage extraction with
\* actual >= estimated included, which goes straight on to the return)
\* leaves the token bucket unchanged; no step of it changes the request
\* bucket.
C6_ReconciliationOnlyCredits ==
    [][\A c \in Callers :
          (Stepped(c) /\ th[c].op = "start" /\ (pc[c] = "acq_ret" \/ InRefund(c))) =>
              LET l == kind[c]
                  x == th[c].estimated - th[c].actual
              IN  /\ request_bucket' = request_bucket
                  /\ IF th'[c].nrefund = th[c].nrefund + 1
                     THEN /\ x > 0
                          /\ token_bucket'[l].available = token_bucket[l].available + x
                     ELSE token_bucket' = token_bucket
                  /\ (pc[c] = "acq_ret" /\ th'[c].result \notin ErrorResults) =>
                         (th'[c].actual >= th'[c].estimated <=> pc'[c] = "done")]_vars

\* C7: a streamed call that has not observed an event of type
\* conversation.response.done never refunds: whatever it does after its
\* acquire (events, an error, the end of the stream, the consumer dropping
\* it) starts no refund and leaves the token bucket as it is.
C7_StreamRefundOnlyOnDone ==
    [][\A c \in Callers :
          (Stepped(c) /\ th'[c].op = "start_stream" /\ ~th'[c].seen_done
             /\ pc[c] \in {"acq_ret", "stream", "yielded"}) =>
              /\ token_bucket' = token_bucket
              /\ th'[c].nrefund = 0
              /\ ~InRefund(c)'
              /\ th'[c].dtok = th[c].dtok]_vars

\* A streamed call has got events but no terminal one, its stream has
\* raised, and the estimate it debited has not been refunded.
C7_Witness ==
    \E c \in Callers :
        /\ th[c].op = "start_stream"
        /\ pc[c] = "done"
        /\ th[c].result \in ErrorResults
        /\ th[c].events >= 1
        /\ ~th[c].seen_done
        /\ th[c].ntok = 1
        /\ th[c].nrefund = 0

\* C8: when the remote operation of start raises after acquire has returned,
\* the step reports an error, changes neither bucket and starts no refund,
\* and the failed call is over without ever having refunded.
C8_FailedCallKeepsDebit ==
    [][\A c \in Callers :
          (th'[c].op = "start" /\ th'[c].result \in ErrorResults) =>
              /\ pc'[c] = "done"
              /\ th'[c].nrefund = 0
              /\ th[c].result \notin ErrorResults =>
                    /\ pc[c] = "acq_ret"
                    /\ request_bucket' = request_bucket
                    /\ token_bucket' = token_bucket
                    /\ th'[c].dreq = th[c].dreq
                    /\ th'[c].dtok = th[c].dtok]_vars

\* A start call has failed with RateLimitExceeded after debiting both
\* buckets once, without refund.
C8_Witness ==
    \E c \in Callers :
        /\ th[c].op = "start"
        /\ pc[c] = "done"
        /\ th[c].result = "RateLimitExceeded"
        /\ th[c].nreq = 1
        /\ th[c].ntok = 1
        /\ th[c].nrefund = 0

(* ---------------------------- construction ---------------------------- *)

\* What a program may pass as requests_per_second and tokens_per_minute.
RpsInputs == {-1, 0, 1}
TpmInputs == {-600, 0, 600}

\* The RatelimitConfig objects a program may try to create.
ConfigInputs ==
    [api_key : {"none", "key"},
     requests_per_second : RpsInputs,
     tokens_per_minute : TpmInputs]

\* RatelimitConfig.__post_init__ (max_retries, base_delay, max_delay and
\* timeout keep their defaults, which pass).
PostInit(config) ==
    IF config.api_key = "none" THEN "ValueError"
    ELSE IF config.requests_per_second <= 0 THEN "ValueError"
    ELSE IF config.tokens_per_minute <= 0 THEN "ValueError"
    ELSE "ok"

\* Nothing has been constructed yet.
CtorInit ==
    /\ now = 0
    /\ built = [l \in Flavors |-> FALSE]
    /\ request_bucket = [l \in Flavors |-> RateLimitState(0, 0, 0, 0)]
    /\ token_bucket = [l \in Flavors |-> RateLimitState(0, 0, 0, 0)]
    /\ lock = [l \in Flavors |-> None]
    /\ waiters = <<>>
    /\ ncalls = 0
    /\ kind \in Populations
    /\ pc = [c \in Callers |-> "idle"]
    /\ th = [c \in Callers |-> NoFrame]

\* RateLimiter(requests_per_second, tokens_per_minute) or
\* AsyncRateLimiter(requests_per_second, tokens_per_minute), called directly:
\* __init__ builds the two buckets from its arguments as they are.
NewLimiter(c, l, requests_per_second, tokens_per_minute) ==
    /\ pc[c] = "idle"
    /\ ncalls < MaxCalls
    /\ ~built[l]
    /\ ncalls' = ncalls + 1
    /\ built' = [built EXCEPT ![l] = TRUE]
    /\ request_bucket' = [request_bucket EXCEPT ![l] =
                            InitRequestBucket(requests_per_second, now)]
    /\ token_bucket' = [token_bucket EXCEPT ![l] =
                          InitTokenBucket(tokens_per_minute, now)]
    /\ th' = [th EXCEPT ![c] = [NoFrame EXCEPT !.op = "limiter", !.result = "ok"]]
    /\ pc' = [pc EXCEPT ![c] = "done"]
    /\ UNCHANGED <<now, lock, waiters, kind>>

\* MistralRatelimitClient(RatelimitConfig(...)): the configuration is
\* validated when it is created; the client builds both limiters from it.
NewClient(c, config) ==
    /\ pc[c] = "idle"
    /\ ncalls < MaxCalls
    /\ \A l \in Flavors : ~built[l]
    /\ ncalls' = ncalls + 1
    /\ IF PostInit(config) = "ok"
       THEN /\ built' = [l \in Flavors |-> TRUE]
            /\ request_bucket' =
                  [l \in Flavors |-> InitRequestBucket(config.requests_per_second, now)]
            /\ token_bucket' =
                  [l \in Flavors |-> InitTokenBucket(config.tokens_per_minute, now)]
       ELSE UNCHANGED <<built, request_bucket, token_bucket>>
    /\ th' = [th EXCEPT ![c] = [NoFrame EXCEPT !.op = "client",
                                               !.result = PostInit(config)]]
    /\ pc' = [pc EXCEPT ![c] = "done"]
    /\ UNCHANGED <<now, lock, waiters, kind>>

CtorNext ==
    \/ Tick
    \/ \E c \in Callers, l \in Flavors, rps \in RpsInputs, tpm \in TpmInputs :
          NewLimiter(c, l, rps, tpm)
    \/ \E c \in Callers, config \in ConfigInputs : NewClient(c, config)
    \/ \E c \in Callers : Return(c)

CtorSpec == CtorInit /\ [][CtorNext]_vars

\* C9: no limiter with a non-positive refill rate or capacity is ever
\* reachable: constructing one with requests_per_second <= 0 or
\* tokens_per_minute <= 0 fails and yields no limiter.
C9_NoNonPositiveLimiter ==
    \A l \in Flavors :
        built[l] =>
            /\ request_bucket[l].max_tokens > 0
            /\ request_bucket[l].refill_rate > 0
            /\ token_bucket[l].max_tokens > 0
            /\ token_bucket[l].refill_rate > 0

(* ------------------------------ liveness ------------------------------ *)

\* Costs below, at and above the capacity of each bucket.
LiveReqCosts == {0, 1, 2}
LiveTokCosts == {0, 310, 610}

\* Limiter calls of any cost, beside the non-streaming wrapper.
LiveNext ==
    \/ Time
    \/ \E c \in Callers, r \in LiveReqCosts, k \in LiveTokCosts :
          \/ CallAcquire(c, r, k)
          \/ CallGetWaitTime(c, r, k)
    \/ \E c \in Callers, est \in Estimates : CallStart(c, est)
    \/ \E c \in Callers :
          \/ AcquireSteps(c)
          \/ GetWaitTimeSteps(c)
          \/ RefundSteps(c)
          \/ Return(c)
    \/ \E c \in Callers, response \in Responses : RemoteRespond(c, response)
    \/ \E c \in Callers, error \in Errors : RemoteRaise(c, error)

\* Time always advances; every caller that can take a step of a limiter
\* method or of a refund eventually takes it; a thread that finds the
\* threading.Lock free again and again eventually gets it (the asyncio.Lock
\* hands over in FIFO order, so weak fairness serves its waiters).
LiveSpec ==
    /\ Init
    /\ [][LiveNext]_vars
    /\ WF_vars(Tick)
    /\ WF_vars(SleepAdvance)
    /\ \A c \in Callers :
          /\ WF_vars(AcquireSteps(c) \/ GetWaitTimeSteps(c) \/ RefundSteps(c))
          /\ SF_vars(SyncLock(c))
          /\ SF_vars(SyncGwtLock(c))

\* Caller c is inside acquire (called directly or by the wrapper).
InAcquire(c) ==
    \/ pc[c] \in {"acq_lock", "acq_req", "acq_req_sleep", "acq_tok_refill",
                  "acq_tok_refill_wr", "acq_tok_check", "acq_tok_needed",
                  "acq_tok_sleep", "acq_tok_debit", "acq_tok_debit_wr", "acq_unlock"}
    \/ pc[c] = "lock_wait" /\ th[c].at = "acq_lock"

\* Caller c is inside get_wait_time.
InGetWaitTime(c) ==
    \/ pc[c] \in {"gwt_lock", "gwt_tok_refill", "gwt_tok_refill_wr", "gwt_check",
                  "gwt_tok_needed", "gwt_unlock"}
    \/ pc[c] = "lock_wait" /\ th[c].at = "gwt_lock"

\* C10: with positive rates, every acquire call and every get_wait_time
\* call eventually returns, whatever the costs and whatever the other
\* callers of the same limiter do, when time advances and scheduling is fair.
C10_CallsEventuallyReturn ==
    \A c \in Callers :
        /\ InAcquire(c) ~> (pc[c] = "acq_ret")
        /\ InGetWaitTime(c) ~> (pc[c] = "gwt_ret")

\* An acquire has returned after sleeping for credit while another caller
\* was waiting for the same limiter's lock.
C10_Witness ==
    \E c, d \in Callers :
        /\ c # d
        /\ pc[c] = "acq_ret"
        /\ th[c].total_wait > 0
        /\ pc[d] \in {"acq_lock", "gwt_lock", "lock_wait"}

\* C11: an acquire that found a bucket's refilled available below the cost
\* does not return before (cost - available) / refill_rate has elapsed since
\* that check (due_req, due_tok: the check's time plus that wait), and on
\* return that bucket has been debited by the full cost.
C11_ShortBucketWaitsThenDebits ==
    \A c \in Callers :
        pc[c] = "acq_ret" =>
            /\ th[c].due_req > 0 =>
                  /\ now >= th[c].due_req
                  /\ th[c].nreq = 1
                  /\ th[c].dreq = th[c].request_tokens
            /\ th[c].due_tok > 0 =>
                  /\ now >= th[c].due_tok
                  /\ th[c].ntok = 1
                  /\ th[c].dtok = th[c].token_count

\* C12: an acquire whose two checks both found the refilled available at
\* least the cost (no wait was ever due) returns 0 seconds waited, has not
\* slept, and has reduced the request bucket by exactly r and the token
\* bucket by exactly k.
C12_SatisfiableAcquireDebitsAtOnce ==
    \A c \in Callers :
        (pc[c] = "acq_ret" /\ th[c].due_req = 0 /\ th[c].due_tok = 0) =>
            /\ th[c].total_wait = 0
            /\ ~th[c].waited
            /\ th[c].nreq = 1
            /\ th[c].dreq = th[c].request_tokens
            /\ th[c].ntok = 1
            /\ th[c].dtok = th[c].token_count

(* ------------------- three back-to-back acquire calls ------------------ *)

\* The limiter of the scenario: 2 requests per second, 120 tokens per minute.
ScenarioConfig == [requests_per_second |-> 2, tokens_per_minute |-> 120]

\* In the scenario one tick is half a second.
ScenarioTicksPerSecond == ScenarioConfig.requests_per_second

\* acquire(1, 50), three times.
ScenarioCalls ==
    [n \in {1, 2, 3} |-> [request_tokens |-> 1, token_count |-> 50]]

\* Both buckets full at t = 0; refill rates per tick.
ScenarioInit ==
    /\ now = 0
    /\ built = [l \in Flavors |-> TRUE]
    /\ request_bucket =
          [l \in Flavors |->
              RateLimitState(ScenarioConfig.requests_per_second,
                             ScenarioConfig.requests_per_second,
                             ScenarioConfig.requests_per_second
                                 \div ScenarioTicksPerSecond, 0)]
    /\ token_bucket =
          [l \in Flavors |->
              RateLimitState(ScenarioConfig.tokens_per_minute,
                             ScenarioConfig.tokens_per_minute,
                             (ScenarioConfig.tokens_per_minute \div SecondsPerMinute)
                                 \div ScenarioTicksPerSecond, 0)]
    /\ lock = [l \in Flavors |-> None]
    /\ waiters = <<>>
    /\ ncalls = 0
    /\ kind \in Populations
    /\ pc = [c \in Callers |-> "idle"]
    /\ th = [c \in Callers |-> NoFrame]

\* The next call of the scenario, made once the previous one has returned.
ScenarioCall(c) ==
    /\ \A d \in Callers : pc[d] = "idle"
    /\ ncalls + 1 \in DOMAIN ScenarioCalls
    /\ ncalls' = ncalls + 1
    /\ th' = [th EXCEPT ![c] =
                NewFrame("acquire", ScenarioCalls[ncalls + 1].request_tokens,
                         ScenarioCalls[ncalls + 1].token_count, 0)]
    /\ pc' = [pc EXCEPT ![c] = "acq_lock"]
    /\ UNCHANGED <<now, request_bucket, token_bucket, lock, waiters, kind, built>>

\* Beside the scenario's calls a caller may preview the wait of such a call
\* with get_wait_time(1, 50).
ScenarioPreview(c) ==
    /\ pc[c] = "idle"
    /\ ncalls \in DOMAIN ScenarioCalls
    /\ th' = [th EXCEPT ![c] =
                NewFrame("get_wait_time", ScenarioCalls[ncalls].request_tokens,
                         ScenarioCalls[ncalls].token_count, 0)]
    /\ pc' = [pc EXCEPT ![c] = "gwt_lock"]
    /\ UNCHANGED <<now, request_bucket, token_bucket, lock, waiters, kind, ncalls, built>>

\* time.sleep / asyncio.sleep: the only way time passes in the scenario.
ScenarioSleep ==
    /\ PendingWakes # {}
    /\ now' = CHOOSE t \in PendingWakes : \A u \in PendingWakes : t <= u
    /\ UNCHANGED <<request_bucket, token_bucket, lock, waiters, ncalls, kind, pc, th, built>>

ScenarioNext ==
    \/ ScenarioSleep
    \/ \E c \in Callers :
          \/ ScenarioCall(c)
          \/ ScenarioPreview(c)
          \/ GetWaitTimeSteps(c)
          \/ SyncLock(c)
          \/ SyncAcquireRequest(c)
          \/ SyncRequestWake(c)
          \/ SyncTokenRefillRead(c)
          \/ SyncTokenRefillWrite(c)
          \/ SyncTokenCheck(c)
          \/ SyncTokenNeeded(c)
          \/ SyncTokenWake(c)
          \/ SyncTokenDebitRead(c)
          \/ SyncTokenDebitWrite(c)
          \/ SyncUnlock(c)
          \/ AsyncAcquireEnter(c)
          \/ AsyncRequestWake(c)
          \/ AsyncTokenWake(c)
          \/ Return(c)

ScenarioSpec == ScenarioInit /\ [][ScenarioNext]_vars

\* C13: with 2 requests per second and 120 tokens per minute and both
\* buckets full, three back-to-back acquire(1, 50) calls return waits 0, 0
\* and 15.0 s; the buckets hold (1, 70) after call 1 and (0, 20) after call
\* 2; call 3 waits 0.5 s on the request bucket and then 14.5 s on the token
\* bucket, which holds 21 when that wait is computed.
C13_ThreeBackToBackAcquires ==
    \A c \in Callers :
        /\ pc[c] = "acq_ret" =>
              /\ ncalls = 1 =>
                    /\ th[c].total_wait = 0
                    /\ request_bucket[kind[c]].available = 1
                    /\ token_bucket[kind[c]].available = 70
              /\ ncalls = 2 =>
                    /\ th[c].total_wait = 0
                    /\ request_bucket[kind[c]].available = 0
                    /\ token_bucket[kind[c]].available = 20
              /\ ncalls = 3 =>
                    th[c].total_wait = 15 * ScenarioTicksPerSecond
        /\ pc[c] = "acq_req_sleep" =>
              /\ ncalls = 3
              /\ 2 * th[c].total_wait = ScenarioTicksPerSecond
        /\ pc[c] = "acq_tok_sleep" =>
              /\ ncalls = 3
              /\ 2 * th[c].total_wait = ScenarioTicksPerSecond + 29 * ScenarioTicksPerSecond
              /\ token_bucket[kind[c]].available = 21

\* The third call has returned after its two waits.
C13_Witness ==
    \E c \in Callers :
        /\ pc[c] = "acq_ret"
        /\ ncalls = 3
        /\ th[c].waited
        /\ th[c].due_req > 0
        /\ th[c].due_tok > th[c].due_req

\* What one step of get_wait_time may do to a bucket: leave available alone
\* or store what a lazy refill at the current clock reading gives, which
\* with zero elapsed time is the value it had.
RefillOnly(before, after) ==
    /\ after.available \in {before.available, RefilledAvailable(before, now)}
    /\ before.last_update = now => after.available = before.available

\* C14: get_wait_time never debits: each of its steps leaves each bucket's
\* available unchanged or at the value a lazy refill alone gives,
\* min(capacity, available + elapsed * refill_rate), and with zero elapsed
\* time unchanged.  (The blocking limiter's token refill stores in a second
\* step the value it computed in the first: that store takes no credit off.)
C14_GetWaitTimeOnlyRefills ==
    [][\A c \in Callers :
          (InGetWaitTime(c) /\ Stepped(c)) =>
              /\ RefillOnly(request_bucket[kind[c]], request_bucket'[kind[c]])
              /\ IF pc[c] = "gwt_tok_refill_wr"
                 THEN token_bucket'[kind[c]].available >=
                         Min(token_bucket[kind[c]].available,
                             token_bucket[kind[c]].max_tokens)
                 ELSE RefillOnly(token_bucket[kind[c]], token_bucket'[kind[c]])]_vars

\* The step of get_wait_time that fixes the value it returns.
ComputesWaitTime(c) ==
    /\ InGetWaitTime(c)
    /\ Stepped(c)
    /\ \/ pc'[c] = "gwt_unlock"
       \/ pc'[c] = "gwt_ret" /\ pc[c] # "gwt_unlock"

\* C15: get_wait_time(r, k) returns max(wr, wt), where on the refilled
\* buckets wr = (r - request.available) / request.refill_rate if
\* request.available < r else 0, and wt likewise for the token bucket; the
\* value is non-negative, and 0 exactly when both costs are satisfiable.
C15_WaitTimeIsMaxOfBucketWaits ==
    [][\A c \in Callers :
          ComputesWaitTime(c) =>
              LET rb == request_bucket'[kind[c]]
                  tb == token_bucket'[kind[c]]
                  r  == th[c].request_tokens
                  k  == th[c].token_count
                  wr == IF rb.available < r
                        THEN (r - rb.available) \div rb.refill_rate ELSE 0
                  wt == IF tb.available < k
                        THEN (k - tb.available) \div tb.refill_rate ELSE 0
              IN  /\ th'[c].total_wait = IF wr >= wt THEN wr ELSE wt
                  /\ th'[c].total_wait >= 0
                  /\ th'[c].total_wait = 0 <=>
                        (rb.available >= r /\ tb.available >= k)]_vars

\* get_wait_time has returned the larger of two positive waits: 1 second
\* for the request bucket, 2 seconds for the token bucket.
C15_Witness ==
    \E c \in Callers :
        /\ pc[c] = "gwt_ret"
        /\ request_bucket[kind[c]].available < th[c].request_tokens
        /\ token_bucket[kind[c]].available < th[c].token_count
        /\ th[c].total_wait = 2

\* The wait get_wait_time computes for one bucket and one cost.
WaitFor(bucket, tokens) ==
    IF bucket.available < tokens
    THEN WaitTime(Needed(bucket.available, tokens), bucket.refill_rate)
    ELSE 0

\* The value a get_wait_time(r, k) call made at clock reading t returns on
\* the buckets rb, tb.
GetWaitTime(rb, tb, r, k, t) ==
    Max(WaitFor(Refill(rb, t), r), WaitFor(Refill(tb, t), k))

\* C16: a second get_wait_time(r, k) with the same arguments, made on the
\* buckets as the first call left them, returns the value the first call
\* returns, when no time has elapsed since the first call's refills and no
\* refund has written the token bucket since then (th[c].refilled is what
\* the first call's refill stored; an acquire cannot come in between, the
\* first call holds the lock).
C16_GetWaitTimeRepeatable ==
    [][\A c \in Callers :
          (/\ ComputesWaitTime(c)
           /\ request_bucket'[kind[c]].last_update = now'
           /\ token_bucket'[kind[c]].last_update = now'
           /\ token_bucket'[kind[c]].available = th'[c].refilled) =>
              GetWaitTime(request_bucket'[kind[c]], token_bucket'[kind[c]],
                          th[c].request_tokens, th[c].token_count, now')
                  = th'[c].total_wait]_vars

\* A get_wait_time call of the suspending limiter has returned a positive
\* wait, computed at the current clock reading.
C16_Witness ==
    \E c \in Callers :
        /\ pc[c] = "gwt_ret"
        /\ kind[c] = "async"
        /\ th[c].total_wait > 0
        /\ request_bucket["async"].last_update = now
        /\ token_bucket["async"].last_update = now
        /\ request_bucket["async"].available < th[c].request_tokens

(* ------------------------- cancelled waits ----------------------------- *)

\* A faulty variant: the cancelled wait leaves without releasing the lock.
CancelKeepingLock(c) ==
    /\ Sleeping(c)
    /\ now < th[c].wake
    /\ lock[kind[c]] = c
    /\ th' = [th EXCEPT ![c].result = "CancelledError", ![c].wake = 0]
    /\ pc' = [pc EXCEPT ![c] = "done"]
    /\ UNCHANGED <<now, request_bucket, token_bucket, lock, waiters, kind, ncalls, built>>

\* The wait of an acquire is cut short: the task is cancelled while it
\* awaits asyncio.sleep (CancelledError is raised at the await), or the
\* thread's time.sleep is interrupted by an exception.  `async with
\* self._lock` / `with self._lock` releases the lock on the way out and the
\* exception leaves acquire (and the wrapper: its acquire is outside the try
\* block) without running any statement after the sleep.
Cancel(c) ==
    /\ Sleeping(c)
    /\ now < th[c].wake
    /\ lock[kind[c]] = c
    /\ lock' = [lock EXCEPT ![kind[c]] = None]
    /\ th' = [th EXCEPT ![c].result = "CancelledError", ![c].wake = 0]
    /\ pc' = [pc EXCEPT ![c] = "done"]
    /\ UNCHANGED <<now, request_bucket, token_bucket, waiters, kind, ncalls, built>>

CancelNext ==
    \/ Next
    \/ \E c \in Callers : Cancel(c)

CancelSpec == Init /\ [][CancelNext]_vars

\* C17: an acquire whose wait was cancelled or interrupted before it
\* elapsed has debited neither the request bucket nor the token bucket.
C17_CancelledWaitLeavesNoDebit ==
    \A c \in Callers :
        th[c].result = "CancelledError" => (th[c].nreq = 0 /\ th[c].ntok = 0)

(* ------------- the two limiters of one client, side by side ------------ *)

\* One thread on the client's blocking limiter and one task on its
\* suspending limiter.
PairKind == [c \in Callers |-> IF c \in Consumers THEN "sync" ELSE "async"]

PairInit ==
    /\ now = 0
    /\ built = [l \in Flavors |-> TRUE]
    /\ request_bucket =
          [l \in Flavors |-> InitRequestBucket(Config.requests_per_second, 0)]
    /\ token_bucket =
          [l \in Flavors |-> InitTokenBucket(Config.tokens_per_minute, 0)]
    /\ lock = [l \in Flavors |-> None]
    /\ waiters = <<>>
    /\ ncalls = 0
    /\ kind = PairKind
    /\ pc = [c \in Callers |-> "idle"]
    /\ th = [c \in Callers |-> NoFrame]

\* The caller has the value its call returned.
Finished(c) ==
    \/ pc[c] = "acq_ret" /\ th[c].op = "acquire"
    \/ pc[c] = "gwt_ret"
    \/ pc[c] = "done"

\* The same call is made on both limiters at the same clock reading:
\* acquire(r, k), get_wait_time(r, k), or the wrapper's acquire of an
\* estimate that a refund follows.
PairCall(op, r, k) ==
    /\ \A c \in Callers : pc[c] = "idle"
    /\ ncalls < MaxCalls
    /\ ncalls' = ncalls + 1
    /\ th' = [c \in Callers |->
                NewFrame(op, r, k, IF op = "start" THEN k ELSE 0)]
    /\ pc' = [c \in Callers |->
                IF op = "get_wait_time" THEN "gwt_lock" ELSE "acq_lock"]
    /\ UNCHANGED <<now, request_bucket, token_bucket, lock, waiters, kind, built>>

\* Both wrappers get the same response: actual = _extract_usage(response),
\* then _refund_tokens(estimated, actual) / _refund_tokens_async(...).
PairRespond(response) ==
    /\ \A c \in Callers : pc[c] = "acq_ret" /\ th[c].op = "start"
    /\ LET actual == ExtractUsage(response)
       IN  /\ th' = [c \in Callers |->
                       IF RefundEntry(kind[c], th[c], actual) = "done"
                       THEN Refunding([th[c] EXCEPT !.actual = actual,
                                                    !.nremote = @ + 1], 0)
                       ELSE [th[c] EXCEPT !.actual = actual, !.nremote = @ + 1]]
           /\ pc' = [c \in Callers |-> RefundEntry(kind[c], th[c], actual)]
    /\ UNCHANGED <<now, request_bucket, token_bucket, lock, waiters, kind, ncalls, built>>

\* Both callers have their values; the next call can be made.
PairReturn ==
    /\ \A c \in Callers : Finished(c)
    /\ pc' = [c \in Callers |-> "idle"]
    /\ th' = [c \in Callers |-> NoFrame]
    /\ UNCHANGED <<now, request_bucket, token_bucket, lock, waiters, kind, ncalls, built>>

\* Time passes between two calls.
PairTick ==
    /\ \A c \in Callers : pc[c] = "idle"
    /\ Tick

\* Time passes while the calls sleep, and no sleep lasts longer than its
\* argument: both limiters read the same clock.
PairSleep ==
    /\ \A c \in Callers : (Sleeping(c) /\ th[c].wake > now) \/ Finished(c)
    /\ PendingWakes # {}
    /\ now' = CHOOSE t \in PendingWakes : \A u \in PendingWakes : t <= u
    /\ UNCHANGED <<request_bucket, token_bucket, lock, waiters, ncalls, kind, pc, th, built>>

PairNext ==
    \/ PairTick
    \/ PairSleep
    \/ PairReturn
    \/ \E r \in ReqCosts, k \in TokCosts :
          \/ PairCall("acquire", r, k)
          \/ PairCall("get_wait_time", r, k)
    \/ \E r \in ReqCosts, est \in Estimates : PairCall("start", r, est)
    \/ \E response \in Responses : PairRespond(response)
    \/ \E c \in Callers :
          \/ SyncLock(c)
          \/ SyncAcquireRequest(c)
          \/ SyncRequestWake(c)
          \/ SyncTokenRefillRead(c)
          \/ SyncTokenRefillWrite(c)
          \/ SyncTokenCheck(c)
          \/ SyncTokenNeeded(c)
          \/ SyncTokenWake(c)
          \/ SyncTokenDebitRead(c)
          \/ SyncTokenDebitWrite(c)
          \/ SyncUnlock(c)
          \/ AsyncAcquireEnter(c)
          \/ AsyncRequestWake(c)
          \/ AsyncTokenWake(c)
          \/ GetWaitTimeSteps(c)
          \/ RefundSteps(c)

PairSpec == PairInit /\ [][PairNext]_vars

\* The steps with which a caller enters its limiter's lock.
LockSteps(c) ==
    \/ SyncLock(c)
    \/ SyncGwtLock(c)
    \/ AsyncAcquireEnter(c)
    \/ AsyncGetWaitTime(c)
    \/ AsyncRefund(c)

\* C18: limiters are independent: the buckets and the lock of a limiter
\* change only in steps taken by callers of that limiter, and a caller that
\* finds its own limiter's lock free enters it whatever the state of the
\* other limiter's lock.
C18_LimitersIndependent ==
    /\ [](\A c \in Callers :
            (/\ pc[c] \in {"acq_lock", "gwt_lock", "refund_lock"}
             /\ lock[kind[c]] = None) => ENABLED LockSteps(c))
    /\ [][\A l \in Flavors :
            (Mutated(l) \/ lock'[l] # lock[l]) =>
                (\A c \in Callers : Stepped(c) => kind[c] = l)]_vars

\* Both limiters' locks are held at once, by different callers, after the
\* blocking limiter's buckets have moved away from the suspending one's.
C18_Witness ==
    /\ lock["sync"] # None
    /\ lock["async"] # None
    /\ lock["sync"] # lock["async"]
    /\ token_bucket["sync"] # token_bucket["async"]

\* C19: the same sequence of acquire, get_wait_time and refund calls, made
\* at the same clock readings on a blocking and on a suspending limiter that
\* start in the same state, returns the same values and leaves the same
\* bucket states.
C19_SameAccounting ==
    (\A c \in Callers : Finished(c) \/ pc[c] = "idle") =>
        /\ \A c, d \in Callers :
              /\ th[c].total_wait = th[d].total_wait
              /\ th[c].result = th[d].result
              /\ th[c].nrefund = th[d].nrefund
        /\ request_bucket["sync"] = request_bucket["async"]
        /\ token_bucket["sync"] = token_bucket["async"]

\* Both limiters have returned from a second call that had to wait and left
\* the token bucket away from full.
C19_Witness ==
    /\ ncalls = MaxCalls
    /\ \A c \in Callers : Finished(c) /\ th[c].total_wait > 0 /\ th[c].waited
    /\ token_bucket["async"].available < token_bucket["async"].max_tokens

RefillClaimed(bucket, t) ==
    LET sum == bucket.available + (t - bucket.last_update) * bucket.refill_rate
    IN  IF bucket.max_tokens <= sum THEN bucket.max_tokens ELSE sum

\* Caller c runs the refills with which get_wait_time begins (the blocking
\* limiter: of the request bucket; the suspending one: of both buckets).
EntersGetWaitTime(c) ==
    /\ \/ pc[c] = "gwt_lock"
       \/ pc[c] = "lock_wait" /\ th[c].at = "gwt_lock"
    /\ pc'[c] \in {"gwt_tok_refill", "gwt_ret"}

\* Caller c of the blocking limiter runs _refill(self._token_bucket) up to
\* its store; th'[c].reg is the value it is about to store.
ReadsTokenRefill(c) ==
    /\ pc[c] \in {"acq_tok_refill", "gwt_tok_refill"}
    /\ Stepped(c)

\* C21: for every bucket state and elapsed time t >= 0, refill sets
\* available to min(capacity, available + t * refill_rate) and last_update
\* to the current clock reading, and the resulting available is never
\* negative and never above capacity.
C21_RefillResult ==
    [][\A c \in Callers :
          /\ EntersGetWaitTime(c) =>
                LET rb == request_bucket[kind[c]]
                    rb2 == request_bucket'[kind[c]]
                IN  /\ rb2.available = RefillClaimed(rb, now)
                    /\ rb2.last_update = now
                    /\ 0 <= rb2.available
                    /\ rb2.available <= rb2.max_tokens
          /\ (EntersGetWaitTime(c) /\ kind[c] = "async") =>
                LET tb == token_bucket["async"]
                    tb2 == token_bucket'["async"]
                IN  /\ tb2.available = RefillClaimed(tb, now)
                    /\ tb2.last_update = now
                    /\ 0 <= tb2.available
                    /\ tb2.available <= tb2.max_tokens
          /\ ReadsTokenRefill(c) =>
                LET tb == token_bucket["sync"]
                IN  /\ th'[c].reg = RefillClaimed(tb, now)
                    /\ token_bucket'["sync"].last_update = now
                    /\ 0 <= th'[c].reg
                    /\ th'[c].reg <= tb.max_tokens]_vars

\* Both buckets of limiter l are as a constructor called with
\* requests_per_second and tokens_per_minute leaves them: full, the request
\* bucket refilling its capacity per second, the token bucket per minute.
NewlyConstructed(l, requests_per_second, tokens_per_minute) ==
    /\ request_bucket[l].available = requests_per_second
    /\ request_bucket[l].max_tokens = requests_per_second
    /\ request_bucket[l].refill_rate * TicksPerSecond = requests_per_second
    /\ token_bucket[l].available = tokens_per_minute
    /\ token_bucket[l].max_tokens = tokens_per_minute
    /\ token_bucket[l].refill_rate * TicksPerSecond * SecondsPerMinute
          = tokens_per_minute

\* C22: a newly constructed limiter has both buckets full, the request
\* bucket with available = capacity = refill_rate = requests_per_second, the
\* token bucket with available = capacity = tokens_per_minute and
\* refill_rate = tokens_per_minute / 60; capacity and refill_rate never
\* change afterwards.
C22_ConstructedFullAndFixed ==
    /\ \A l \in Flavors :
          NewlyConstructed(l, Config.requests_per_second, Config.tokens_per_minute)
    /\ [][\A l \in Flavors :
            /\ request_bucket'[l].max_tokens = request_bucket[l].max_tokens
            /\ request_bucket'[l].refill_rate = request_bucket[l].refill_rate
            /\ token_bucket'[l].max_tokens = token_bucket[l].max_tokens
            /\ token_bucket'[l].refill_rate = token_bucket[l].refill_rate]_vars

\* After acquires, refills and a refund the token bucket is away from full
\* and its capacity and refill rate are those of the construction.
C22_Witness ==
    \E l \in Flavors, c \in Callers :
        /\ th[c].nrefund = 1
        /\ token_bucket[l].available < token_bucket[l].max_tokens
        /\ token_bucket[l].last_update > 0
        /\ token_bucket[l].max_tokens = Config.tokens_per_minute
        /\ token_bucket[l].refill_rate * SecondsPerMinute = Config.tokens_per_minute

\* The positions of acquire at which the token bucket is being handled.
TokenPcs ==
    {"acq_tok_refill", "acq_tok_refill_wr", "acq_tok_check", "acq_tok_needed",
     "acq_tok_sleep", "acq_tok_debit", "acq_tok_debit_wr"}

\* The step of acquire that adds the token wait to total_wait.
TokenWaitAdded(c) ==
    \/ pc[c] = "acq_tok_needed" /\ Stepped(c)
    \/ kind[c] = "async" /\ th'[c].due_tok # th[c].due_tok

\* C23: acquire handles the request bucket completely (check, wait, debit)
\* before it examines the token bucket, and returns the sum of the two wait
\* contributions: the request wait, computed first from the refilled request
\* bucket, and the token wait, added to it and computed from the token
\* bucket's available as it stands after a refill made once the request
\* wait has elapsed.
C23_RequestThenTokenSum ==
    [][\A c \in Callers :
          (InAcquire(c) /\ Stepped(c)) =>
              LET rb == request_bucket'[kind[c]]
                  tb == token_bucket'[kind[c]]
                  r  == th[c].request_tokens
                  k  == th[c].token_count
              IN  /\ (pc'[c] \in TokenPcs \/ tb # token_bucket[kind[c]]) =>
                        /\ th'[c].nreq = 1
                        /\ th'[c].dreq = r
                  /\ pc'[c] = "acq_req_sleep" =>
                        /\ th'[c].due_tok = 0
                        /\ th'[c].ntok = 0
                        /\ tb = token_bucket[kind[c]]
                  /\ th'[c].due_req # th[c].due_req =>
                        /\ th'[c].nreq = 0
                        /\ th[c].total_wait = 0
                        /\ th'[c].total_wait = (r - rb.available) \div rb.refill_rate
                  /\ TokenWaitAdded(c) =>
                        /\ th'[c].nreq = 1
                        /\ th'[c].ntok = 0
                        /\ tb.last_update >= th'[c].due_req
                        /\ th'[c].total_wait - th[c].total_wait
                              = (k - tb.available) \div tb.refill_rate
                  /\ th'[c].total_wait # th[c].total_wait =>
                        (th'[c].due_req # th[c].due_req \/ TokenWaitAdded(c))]_vars

\* An acquire has returned after a request wait followed by a token wait.
C23_Witness ==
    \E c \in Callers :
        /\ pc[c] = "acq_ret"
        /\ th[c].op = "acquire"
        /\ th[c].due_req > 0
        /\ th[c].due_tok >= th[c].due_req
        /\ th[c].due_tok > 0
        /\ th[c].total_wait = 2

\* The positions inside `with self._lock` / `async with self._lock` of
\* acquire and of get_wait_time.
InsideLockPcs ==
    {"acq_req", "acq_req_sleep", "acq_unlock"} \cup TokenPcs
       \cup {"gwt_tok_refill", "gwt_tok_refill_wr", "gwt_check",
             "gwt_tok_needed", "gwt_unlock"}

\* C24: the limiter's lock is held for the whole acquire call, its waits
\* included, in both flavors: while a caller is inside acquire, sleeping or
\* not, it holds the lock and no other acquire or get_wait_time on the same
\* limiter is past taking the lock.
C24_LockHeldAcrossWaits ==
    \A c \in Callers :
        (pc[c] \in InsideLockPcs) =>
            /\ lock[kind[c]] = c
            /\ \A d \in Callers \ {c} :
                  kind[d] = kind[c] => pc[d] \notin InsideLockPcs

\* A caller sleeps inside acquire while another caller, whose costs of zero
\* the buckets could serve at once, stands before the lock.
C24_Witness ==
    \E c, d \in Callers :
        /\ c # d
        /\ kind[c] = kind[d]
        /\ Sleeping(c)
        /\ th[c].wake > now
        /\ pc[d] \in {"acq_lock", "gwt_lock", "lock_wait"}
        /\ th[d].request_tokens = 0
        /\ th[d].token_count = 0

\* The wrapper calls that reconcile.
WrapperOps == {"start", "start_stream"}

RefilledTokenPcs ==
    {"acq_tok_refill_wr", "acq_tok_check", "acq_tok_needed", "acq_tok_debit",
     "acq_tok_debit_wr", "gwt_tok_refill_wr", "gwt_check", "gwt_tok_needed"}

\* The positions whose step reads the token bucket's available.
TokenReadPcs ==
    {"acq_tok_refill", "gwt_tok_refill", "acq_tok_check", "acq_tok_needed",
     "acq_tok_debit", "gwt_check", "gwt_tok_needed", "refund_rd"}

\* The step of caller c refills the token bucket of its limiter at the
\* current clock reading.
RefillsToken(c) == token_bucket'[kind[c]].last_update = now

\* The step of caller c refills the request bucket of its limiter at the
\* current clock reading.
RefillsRequest(c) == request_bucket'[kind[c]].last_update = now

\* C26: every read or mutation of a bucket's available (satisfiability
\* check, debit, refund, preview) is immediately preceded by a refill of
\* that bucket at the current clock reading.  A step that reads or changes
\* the token bucket either refills it at the clock reading itself or is
\* taken from a position that follows such a refill; a caller comes to such
\* a position only by the refill; a step that changes the request bucket
\* refills it at the clock reading.
C26_AccessAfterRefill ==
    [][\A c \in Callers :
          Stepped(c) =>
             /\ (pc'[c] \in RefilledTokenPcs /\ pc[c] \notin RefilledTokenPcs)
                   => RefillsToken(c)
             /\ (\/ token_bucket'[kind[c]] # token_bucket[kind[c]]
                 \/ pc[c] \in TokenReadPcs)
                   => (pc[c] \in RefilledTokenPcs \/ RefillsToken(c))
             /\ request_bucket'[kind[c]] # request_bucket[kind[c]]
                   => RefillsRequest(c)]_vars

\* C27: after a wait, acquire refills the bucket once and debits the cost
\* unconditionally, without re-checking availability; it sleeps at most
\* once per bucket and never loops or waits a second time for the same
\* bucket.  The step that ends the request sleep stores the refilled bucket
\* less the cost, whatever the refill gave, and goes on to the token bucket;
\* a caller starts a request sleep only before its request debit and a
\* token sleep only if it has not slept for the token bucket in this call;
\* after the token sleep the caller refills, debits and leaves, passing
\* neither the satisfiability check nor a second sleep.
C27_OneSleepThenDebit ==
    [][\A c \in Callers :
          LET l == kind[c]
              r == th[c].request_tokens
              k == th[c].token_count
          IN  Stepped(c) =>
                /\ pc[c] = "acq_req_sleep" =>
                      /\ request_bucket'[l] = Debit(Refill(request_bucket[l], now), r)
                      /\ th'[c].nreq = 1
                      /\ pc'[c] \in {"acq_tok_refill", "acq_tok_sleep", "acq_ret"}
                /\ pc'[c] = "acq_req_sleep" =>
                      /\ th[c].nreq = 0
                      /\ th[c].due_req = 0
                      /\ pc[c] \in {"acq_req", "acq_lock", "lock_wait"}
                /\ pc'[c] = "acq_tok_sleep" =>
                      /\ ~th[c].waited
                      /\ th[c].ntok = 0
                      /\ th'[c].nreq = 1
                /\ pc[c] = "acq_tok_sleep" =>
                      /\ th'[c].waited
                      /\ IF l = "async"
                         THEN /\ token_bucket'[l] =
                                    Debit(Refill(token_bucket[l], now), k)
                              /\ th'[c].ntok = 1
                              /\ pc'[c] = "acq_ret"
                         ELSE pc'[c] = "acq_tok_refill"
                /\ (th[c].waited /\ pc[c] = "acq_tok_refill") =>
                      /\ pc'[c] = "acq_tok_refill_wr"
                      /\ th'[c].reg = RefilledAvailable(token_bucket[l], now)
                /\ (th[c].waited /\ pc[c] = "acq_tok_refill_wr") =>
                      /\ pc'[c] = "acq_tok_debit"
                      /\ token_bucket'[l].available = th[c].reg
                /\ (th[c].waited /\ pc[c] = "acq_tok_debit") =>
                      /\ pc'[c] = "acq_tok_debit_wr"
                      /\ th'[c].reg = token_bucket[l].available - k
                /\ (th[c].waited /\ pc[c] = "acq_tok_debit_wr") =>
                      /\ pc'[c] = "acq_unlock"
                      /\ token_bucket'[l].available = th[c].reg
                      /\ th'[c].ntok = 1]_vars

\* An acquire whose costs exceed both capacities has returned: it slept once
\* for each bucket and its debits, made without a second check, left both
\* buckets below zero.
C27_Witness ==
    \E c \in Callers :
        /\ pc[c] = "acq_ret"
        /\ th[c].op = "acquire"
        /\ th[c].waited
        /\ th[c].due_req > 0
        /\ th[c].nreq = 1
        /\ th[c].ntok = 1
        /\ th[c].total_wait = 2
        /\ request_bucket[kind[c]].available < 0
        /\ token_bucket[kind[c]].available < 0

\* The token counts a payload may carry.
TokenCounts == {-5, 0, 100, 400}

\* Every response or terminal-event payload _extract_usage may be handed.
Payloads ==
    {Payload("other", "absent", "absent", 0)}
      \cup {Payload("object", u, "absent", 0) : u \in {"none", "object", "dict"}}
      \cup {Payload("dict", u, "absent", 0) : u \in {"absent", "none", "object", "dict"}}
      \cup {Payload(s, u, "none", 0) : s \in {"object", "dict"}, u \in {"object", "dict"}}
      \cup {Payload(s, u, "int", n) :
               s \in {"object", "dict"}, u \in {"object", "dict"}, n \in TokenCounts}

\* The payload carries no usage information: no usage field, a usage of
\* None, or no total_tokens.
NoUsageInformation(p) ==
    \/ p.shape = "other"
    \/ p.usage \in {"absent", "none"}
    \/ p.total \in {"absent", "none"}

\* The non-streaming wrapper answered with any payload.
UsageNext ==
    \/ Time
    \/ \E c \in Callers, r \in ReqCosts, k \in TokCosts :
          \/ CallAcquire(c, r, k)
          \/ CallGetWaitTime(c, r, k)
    \/ \E c \in Callers, est \in Estimates : CallStart(c, est)
    \/ \E c \in Callers :
          \/ AcquireSteps(c)
          \/ GetWaitTimeSteps(c)
          \/ RefundSteps(c)
          \/ Return(c)
    \/ \E c \in Callers, response \in Payloads : RemoteRespond(c, response)
    \/ \E c \in Callers, error \in Errors : RemoteRaise(c, error)

UsageSpec == Init /\ [][UsageNext]_vars

\* C28: usage extraction never fails and returns a non-negative integer,
\* returning 0 whenever the response or terminal event carries no usage
\* information (no usage field, usage of None, or no total_tokens).  For
\* every payload the extraction yields a value, 0 where there is no usage
\* information, and the actual a wrapper call holds after the extraction
\* is not negative.
C28_UsageNonNegative ==
    /\ \A p \in Payloads :
          /\ ExtractUsage(p) \in Int
          /\ NoUsageInformation(p) => ExtractUsage(p) = 0
    /\ \A c \in Callers : th[c].actual >= 0

\* What holds of the extraction for every payload: it yields a number, 0
\* where there is no usage information, where the lookup raises, and where
\* usage and response are of different kinds, else the total_tokens carried.
UsageExtractionTotal ==
    \A p \in Payloads :
        /\ ExtractUsage(p) \in Int
        /\ NoUsageInformation(p) => ExtractUsage(p) = 0
        /\ ExtractUsage(p) \in {0, p.total_tokens}

(* ------------------------------ rate bound ---------------------------- *)

\* The calls of a run that adds up what the limiter has granted.
RateCalls == 3
RateReqCosts == {0, 1}
RateTokCosts == {310}

\* The acquire of caller c's current call has returned.
AcquireReturned(c) ==
    \/ th[c].op = "acquire" /\ pc[c] = "acq_ret"
    \/ th[c].op = "start" /\ (pc[c] \in {"acq_ret", "done"} \/ InRefund(c))

\* What the returned acquire of caller c's current call asked of each bucket.
GrantedRequests(c) == IF AcquireReturned(c) THEN th[c].request_tokens ELSE 0
GrantedTokens(c) == IF AcquireReturned(c) THEN th[c].token_count ELSE 0

\* What the refund of caller c's current call gave back.
RefundedTokens(c) ==
    IF th[c].nrefund > 0 THEN th[c].estimated - th[c].actual ELSE 0

\* The frame of a new call keeps the caller's totals of its earlier calls.
Carried(c, f) ==
    [f EXCEPT !.spent_req = th[c].spent_req, !.spent_tok = th[c].spent_tok,
              !.refunded = th[c].refunded]

\* limiter.acquire(request_tokens, token_count), as CallAcquire
RateAcquire(c, r, k) ==
    /\ pc[c] = "idle"
    /\ ncalls < RateCalls
    /\ ncalls' = ncalls + 1
    /\ th' = [th EXCEPT ![c] = Carried(c, NewFrame("acquire", r, k, 0))]
    /\ pc' = [pc EXCEPT ![c] = "acq_lock"]
    /\ UNCHANGED <<now, request_bucket, token_bucket, lock, waiters, kind, built>>

\* start(inputs), as CallStart
RateStart(c, est) ==
    /\ pc[c] = "idle"
    /\ ncalls < RateCalls
    /\ ncalls' = ncalls + 1
    /\ th' = [th EXCEPT ![c] = Carried(c, NewFrame("start", 1, est, est))]
    /\ pc' = [pc EXCEPT ![c] = "acq_lock"]
    /\ UNCHANGED <<now, request_bucket, token_bucket, lock, waiters, kind, built>>

\* The caller has the outcome of its call, as Return; what the call was
\* granted and refunded goes to the caller's totals.
RateReturn(c) ==
    /\ \/ pc[c] = "acq_ret" /\ th[c].op = "acquire"
       \/ pc[c] = "done"
    /\ pc' = [pc EXCEPT ![c] = "idle"]
    /\ th' = [th EXCEPT ![c] =
                [NoFrame EXCEPT !.spent_req = th[c].spent_req + GrantedRequests(c),
                                !.spent_tok = th[c].spent_tok + GrantedTokens(c),
                                !.refunded = th[c].refunded + RefundedTokens(c)]]
    /\ UNCHANGED <<now, request_bucket, token_bucket, lock, waiters, kind, ncalls, built>>

RateNext ==
    \/ Time
    \/ \E c \in Callers, r \in RateReqCosts, k \in RateTokCosts : RateAcquire(c, r, k)
    \/ \E c \in Callers, est \in Estimates : RateStart(c, est)
    \/ \E c \in Callers :
          \/ AcquireSteps(c)
          \/ RefundSteps(c)
          \/ RateReturn(c)
    \/ \E c \in Callers, response \in Responses : RemoteRespond(c, response)
    \/ \E c \in Callers, error \in Errors : RemoteRaise(c, error)

RateSpec == Init /\ [][RateNext]_vars

RECURSIVE SumOver(_, _)
SumOver(S, f) ==
    IF S = {} THEN 0
    ELSE LET c == CHOOSE d \in S : TRUE IN f[c] + SumOver(S \ {c}, f)

\* The callers of limiter l.
CallersOf(l) == {c \in Callers : kind[c] = l}

\* The requests debited by the returned acquire calls on limiter l.
DebitedRequests(l) ==
    SumOver(CallersOf(l), [c \in Callers |-> th[c].spent_req + GrantedRequests(c)])

\* The tokens debited by the returned acquire calls on limiter l, less the
\* tokens refunded.
NetDebitedTokens(l) ==
    SumOver(CallersOf(l),
            [c \in Callers |-> th[c].spent_tok + GrantedTokens(c)
                                 - th[c].refunded - RefundedTokens(c)])

\* capacity + refill_rate * t, t the time since construction
RateBound(bucket) == bucket.max_tokens + bucket.refill_rate * now

Previewer == CHOOSE c \in Callers : \A d \in Callers : c <= d

\* The clock between two calls of the caller.
PreviewTick(c) ==
    /\ pc[c] = "idle"
    /\ Tick

\* time.sleep(wait) / asyncio.sleep(wait) lasts the time asked for.
PreviewSleep(c) ==
    /\ Sleeping(c)
    /\ th[c].wake > now
    /\ now' = th[c].wake
    /\ UNCHANGED <<request_bucket, token_bucket, lock, waiters, ncalls, kind, pc, th, built>>

\* The sleep returns late: it may last longer than the time asked for.
PreviewOversleep(c) ==
    /\ Sleeping(c)
    /\ th[c].wake = now
    /\ ~th[c].late
    /\ now' = now + 1
    /\ th' = [th EXCEPT ![c].late = TRUE]
    /\ UNCHANGED <<request_bucket, token_bucket, lock, waiters, ncalls, kind, pc, built>>

\* get_wait_time(r, k) has returned and the caller goes straight on to
\* acquire(r, k), keeping the value of the preview.
AcquireAfterPreview(c) ==
    /\ pc[c] = "gwt_ret"
    /\ th' = [th EXCEPT ![c] =
                [NewFrame("acquire", th[c].request_tokens, th[c].token_count, 0)
                    EXCEPT !.previewed = TRUE, !.preview = th[c].total_wait]]
    /\ pc' = [pc EXCEPT ![c] = "acq_lock"]
    /\ UNCHANGED <<now, request_bucket, token_bucket, lock, waiters, kind, ncalls, built>>

\* The steps of acquire and get_wait_time a single caller takes.
PreviewSteps(c) ==
    \/ SyncLock(c)
    \/ SyncAcquireRequest(c)
    \/ SyncRequestWake(c)
    \/ SyncTokenRefillRead(c)
    \/ SyncTokenRefillWrite(c)
    \/ SyncTokenCheck(c)
    \/ SyncTokenNeeded(c)
    \/ SyncTokenWake(c)
    \/ SyncTokenDebitRead(c)
    \/ SyncTokenDebitWrite(c)
    \/ SyncUnlock(c)
    \/ AsyncAcquireEnter(c)
    \/ AsyncRequestWake(c)
    \/ AsyncTokenWake(c)
    \/ GetWaitTimeSteps(c)

PreviewNext ==
    \/ \E r \in LiveReqCosts, k \in LiveTokCosts :
          \/ CallAcquire(Previewer, r, k)
          \/ CallGetWaitTime(Previewer, r, k)
    \/ PreviewTick(Previewer)
    \/ PreviewSleep(Previewer)
    \/ PreviewOversleep(Previewer)
    \/ AcquireAfterPreview(Previewer)
    \/ PreviewSteps(Previewer)
    \/ Return(Previewer)

PreviewSpec == Init /\ [][PreviewNext]_vars

\* Caller c's acquire(r, k), with r and k within the capacities, has
\* returned after its get_wait_time(r, k).
PreviewedAcquireReturned(c) ==
    /\ pc[c] = "acq_ret"
    /\ th[c].previewed
    /\ th[c].request_tokens <= request_bucket[kind[c]].max_tokens
    /\ th[c].token_count <= token_bucket[kind[c]].max_tokens

\* C30: preview agrees with acquire.  For costs r <= request capacity and
\* k <= token capacity, with a single caller and no time elapsing between
\* the two calls, the value get_wait_time(r, k) returned equals the total
\* wait the immediately following acquire(r, k) returns.
C30_PreviewAgreesWithAcquire ==
    \A c \in Callers :
        PreviewedAcquireReturned(c) => th[c].total_wait = th[c].preview

\* C30 as the code has it: the two values are equal when every sleep inside
\* acquire lasted exactly the wait computed for it; when a sleep returned
\* late, acquire returns at most what get_wait_time returned.
C30_PreviewAgreesWhenSleepsExact ==
    \A c \in Callers :
        PreviewedAcquireReturned(c) =>
            /\ ~th[c].late => th[c].total_wait = th[c].preview
            /\ th[c].total_wait <= th[c].preview

\* An acquire that had to wait for both buckets has returned the value its
\* preview gave, its sleeps having lasted exactly the waits.
C30_Witness ==
    \E c \in Callers :
        /\ PreviewedAcquireReturned(c)
        /\ ~th[c].late
        /\ th[c].due_req > 0
        /\ th[c].waited
        /\ th[c].preview > 1
        /\ th[c].total_wait = th[c].preview

\* C31: no update is lost on the blocking limiter.  When a refund of x by
\* one thread interleaves with an acquire (its refill and debit of k) by
\* another, every store into the token bucket's available carries the other
\* thread's update: the store of the refund leaves the present available
\* plus x, the store of the debit the present available less k, and the
\* store of the refill does not take back a credit within the capacity.
C31_NoLostUpdate ==
    [][\A c \in Callers :
          (kind[c] = "sync" /\ Stepped(c)) =>
             LET b == token_bucket["sync"]
                 a == token_bucket'["sync"].available
             IN  /\ pc[c] = "refund_wr" =>
                       a = b.available + (th[c].estimated - th[c].actual)
                 /\ pc[c] = "acq_tok_debit_wr" =>
                       a = b.available - th[c].token_count
                 /\ (pc[c] \in {"acq_tok_refill_wr", "gwt_tok_refill_wr"}
                       /\ b.available <= b.max_tokens) =>
                       a >= b.available]_vars

\* The positions at which a caller asks for, or is queued for, the lock.
LockRequestPcs == {"acq_lock", "gwt_lock", "refund_lock", "lock_wait"}

\* C32: the limiter never deadlocks.  The lock is held only by a caller that
\* is inside acquire or get_wait_time (so it was released by every call that
\* finished, by return or by the exception or cancellation that cut its wait
\* short); no caller asks for the lock while holding it; and a caller
\* waiting for the lock is blocked only while another call is in progress:
\* when the lock is free the thread can take it, and the queue of the
\* asyncio.Lock holds exactly the suspended tasks, the first of which is
\* the one that takes it.
C32_NoDeadlock ==
    /\ \A l \in Flavors :
          lock[l] # None =>
             /\ kind[lock[l]] = l
             /\ pc[lock[l]] \in InsideLockPcs
    /\ \A c \in Callers :
          /\ pc[c] \in LockRequestPcs => lock[kind[c]] # c
          /\ pc[c] = "lock_wait" <=> (\E i \in 1..Len(waiters) : waiters[i] = c)
          /\ (pc[c] \in LockRequestPcs /\ lock[kind[c]] = None) =>
                \/ ENABLED SyncLock(c)
                \/ ENABLED SyncGwtLock(c)
                \/ \E at \in {"acq_lock", "gwt_lock", "refund_lock"} :
                      \E d \in Callers : AsyncLockFree(d, at)

\* A wait was cancelled while another task was queued for the lock: the lock
\* is free again and the queued task is the one to take it.
C32_Witness ==
    \E c, d \in Callers :
        /\ c # d
        /\ kind[c] = kind[d]
        /\ th[c].result = "CancelledError"
        /\ lock[kind[c]] = None
        /\ pc[d] = "lock_wait"
        /\ AsyncLockFree(d, th[d].at)

\* C33: each reservation is reconciled at most once.  For one wrapper call
\* at most one refund is applied, whatever events the stream delivers: the
\* step that applies a refund is the first of its call, and it credits no
\* more than the estimate.
C33_AtMostOneRefund ==
    [][\A c \in Callers :
          (th'[c].op \in WrapperOps /\ th'[c].nrefund > th[c].nrefund) =>
             /\ th[c].nrefund = 0
             /\ th'[c].nrefund = 1
             /\ th[c].estimated - th[c].actual <= th[c].estimated]_vars

(* ----------------------- one wrapper call alone ----------------------- *)

\* start(inputs), as CallStart; the frame notes what the two buckets hold at
\* the time of the call (their available as a refill at this clock reading
\* gives it).
NetStart(c, est) ==
    /\ pc[c] = "idle"
    /\ ncalls < MaxCalls
    /\ ncalls' = ncalls + 1
    /\ th' = [th EXCEPT ![c] =
                [NewFrame("start", 1, est, est) EXCEPT
                    !.base_req = RefilledAvailable(request_bucket[kind[c]], now),
                    !.base_tok = RefilledAvailable(token_bucket[kind[c]], now)]]
    /\ pc' = [pc EXCEPT ![c] = "acq_lock"]
    /\ UNCHANGED <<now, request_bucket, token_bucket, lock, waiters, kind, built>>

\* One caller; the clock advances between its calls and while it sleeps.
NetNext ==
    \/ \E r \in LiveReqCosts, k \in LiveTokCosts :
          \/ CallAcquire(Previewer, r, k)
          \/ CallGetWaitTime(Previewer, r, k)
    \/ \E est \in Estimates : NetStart(Previewer, est)
    \/ PreviewTick(Previewer)
    \/ PreviewSleep(Previewer)
    \/ PreviewSteps(Previewer)
    \/ RefundSteps(Previewer)
    \/ Return(Previewer)
    \/ \E response \in Payloads : RemoteRespond(Previewer, response)
    \/ \E error \in Errors : RemoteRaise(Previewer, error)

NetSpec == Init /\ [][NetNext]_vars

\* Caller c's start has completed successfully without waiting.
CompletedAtOnce(c) ==
    /\ pc[c] = "done"
    /\ th[c].op = "start"
    /\ th[c].result = "ok"
    /\ th[c].total_wait = 0

\* C34: after a non-streaming wrapper call has completed successfully, with
\* no other caller and no elapsed time, the token bucket holds
\* min(estimate, actual) less and the request bucket 1 less than at the
\* call; when the response carried no usage information (actual = 0) the
\* token bucket holds what it held at the call.
C34_NetReduction ==
    \A c \in Callers :
        CompletedAtOnce(c) =>
            /\ th[c].base_tok - token_bucket[kind[c]].available =
                  Min(th[c].estimated, th[c].actual)
            /\ th[c].base_req - request_bucket[kind[c]].available = 1
            /\ th[c].actual = 0 =>
                  token_bucket[kind[c]].available = th[c].base_tok

\* A start whose response reported less than the estimate has completed at
\* once and was refunded.
C34_Witness ==
    \E c \in Callers :
        /\ CompletedAtOnce(c)
        /\ th[c].nrefund = 1
        /\ th[c].actual > 0
        /\ th[c].actual < th[c].estimated
        /\ th[c].base_tok - token_bucket[kind[c]].available = th[c].actual

\* The positions of the blocking limiter whose step compares or debits the
\* token bucket's available as it stands.
TokenSpendPcs ==
    {"acq_tok_check", "acq_tok_needed", "acq_tok_debit", "gwt_check",
     "gwt_tok_needed"}

\* C35: credit above capacity is never spendable.  At every satisfiability
\* check and every debit inside acquire, and at every comparison inside
\* get_wait_time, the bucket's available is at most its capacity, whatever
\* refunds were applied before: the steps of the blocking limiter that
\* compare or debit the token bucket find it within its capacity, and the
\* steps that refill a bucket before they compare or debit it (the request
\* bucket, and both buckets of the suspending limiter) act on a refilled
\* available within the capacity.
C35_NoCreditAboveCapacity ==
    [][\A c \in Callers :
          Stepped(c) =>
             LET rb == request_bucket[kind[c]]
                 tb == token_bucket[kind[c]]
             IN  /\ (kind[c] = "sync" /\ pc[c] \in TokenSpendPcs) =>
                       tb.available <= tb.max_tokens
                 /\ (InAcquire(c) \/ InGetWaitTime(c)) =>
                       /\ RefilledAvailable(rb, now) <= rb.max_tokens
                       /\ RefilledAvailable(tb, now) <= tb.max_tokens]_vars

\* How far ahead of the clock the later refills are taken.
MaxAhead == 4

\* A later refill of the bucket, at any clock reading from t on, gives the
\* same bucket from `after` as from `before`.
SameLaterRefill(before, after, t) ==
    \A t2 \in t..(t + MaxAhead) : Refill(after, t2) = Refill(before, t2)

\* The token bucket of the blocking limiter as it would stand had the
\* refill that caller c is about to store not been started.
WithoutRefill(c) ==
    [token_bucket["sync"] EXCEPT !.last_update = th[c].since]

\* C36: refill composes and preview is transparent.  Refilling a bucket at
\* time t1 and again at t2 >= t1 gives the same available as one refill at
\* t2, so inserting get_wait_time calls anywhere in a sequence of operations
\* changes neither the return values of later acquire calls nor the
\* available they leave behind: every refill get_wait_time completes leaves
\* the bucket such that the refill with which a later acquire begins finds
\* what it would have found without the get_wait_time call.
C36_PreviewTransparent ==
    [][/\ \A l \in Flavors :
             \A t1 \in now..(now + MaxAhead) :
                 /\ SameLaterRefill(request_bucket[l], Refill(request_bucket[l], t1), t1)
                 /\ SameLaterRefill(token_bucket[l], Refill(token_bucket[l], t1), t1)
       /\ \A c \in Callers :
             (InGetWaitTime(c) /\ Stepped(c)) =>
                 /\ SameLaterRefill(request_bucket[kind[c]], request_bucket'[kind[c]], now')
                 /\ pc[c] = "gwt_tok_refill_wr" =>
                       SameLaterRefill(WithoutRefill(c), token_bucket'["sync"], now')
                 /\ kind[c] = "async" =>
                       SameLaterRefill(token_bucket["async"], token_bucket'["async"], now')]_vars

(* --------------------------- stream delivery -------------------------- *)

\* The event is the terminal one and its usage calls for a refund.
RefundDue(f, event) ==
    IsTerminal(event) /\ ShouldRefund(f.estimated, ExtractUsage(event.data))

\* C37: the stream wrapper delivers every event of the underlying stream to
\* the consumer unchanged, exactly once and in the original order, and the
\* refund triggered by the terminal conversation.response.done event is
\* applied before that event is handed to the consumer.  An event is taken
\* from the stream only when every earlier one has been handed over; the
\* event handed over is the one last taken, as the stream gave it; and a
\* terminal event that calls for a refund is handed over by the step that
\* completes the refund.
C37_StreamDelivery ==
    [][\A c \in Callers :
          LET f == th[c]
              g == th'[c]
          IN  /\ (pc[c] = "stream" /\ g.events > f.events) =>
                    /\ f.nyield = f.events
                    /\ f.cur = NoEvent
                    /\ pc'[c] = "yielded" => StreamEvent(c, g.handed)
                    /\ pc'[c] # "yielded" => StreamEvent(c, g.cur)
              /\ (pc'[c] = "yielded" /\ Stepped(c)) =>
                    /\ g.handed \in Events
                    /\ g.cur = NoEvent
                    /\ g.nyield = f.nyield + 1
                    /\ g.nyield = g.events
                    /\ pc[c] # "stream" => g.handed = f.cur
                    /\ RefundDue(g, g.handed) =>
                          /\ InRefund(c)
                          /\ g.nrefund = f.nrefund + 1]_vars

\* The consumer holds the second event of a stream, a terminal event
\* with usage 100, and the refund for it has been applied.
C37_Witness ==
    \E c \in Callers :
        /\ pc[c] = "yielded"
        /\ th[c].nyield = MaxEvents
        /\ th[c].handed = [type |-> DoneType, data |-> Payload("object", "object", "int", 100)]
        /\ th[c].nrefund = 1
        /\ token_bucket[kind[c]].available =
              token_bucket[kind[c]].max_tokens - 100

(* --------------------------- lazy reservation ------------------------- *)

\* The call of frame f has debited nothing and invoked no remote operation.
NothingReserved(f) ==
    /\ f.nreq = 0
    /\ f.ntok = 0
    /\ f.dreq = 0
    /\ f.dtok = 0
    /\ f.nremote = 0

\* C38: stream wrappers reserve lazily.  Calling start_stream, append_stream
\* or restart_stream (or their async variants) debits nothing and invokes no
\* remote operation until the consumer requests the first event; a returned
\* stream that is never iterated leaves both buckets unchanged.  The call
\* only creates the generator; from there the caller goes on only by the
\* consumer's first request or by dropping the generator, and neither step
\* touches a bucket, the lock or the remote service.
C38_LazyReservation ==
    [][\A c \in Callers :
          Stepped(c) =>
             LET f == th[c]
                 g == th'[c]
             IN  /\ (pc[c] = "idle" /\ g.op = "start_stream") =>
                       /\ pc'[c] = "gen_created"
                       /\ NothingReserved(g)
                       /\ UNCHANGED <<request_bucket, token_bucket, lock, waiters>>
                 /\ pc[c] = "gen_created" =>
                       /\ NothingReserved(f)
                       /\ NothingReserved(g)
                       /\ pc'[c] \in {"acq_lock", "done"}
                       /\ pc'[c] = "done" => g.result = "abandoned"
                       /\ UNCHANGED <<request_bucket, token_bucket, lock, waiters>>
                 /\ (g.op = "start_stream" /\ ~NothingReserved(g) /\ NothingReserved(f)) =>
                       pc[c] \notin {"idle", "gen_created"}]_vars

\* A stream was returned and dropped without being iterated: nothing was
\* reserved and both buckets are as they were constructed.
C38_Witness ==
    \E c \in Callers :
        /\ pc[c] = "done"
        /\ th[c].op = "start_stream"
        /\ th[c].result = "abandoned"
        /\ th[c].nyield = 0
        /\ NothingReserved(th[c])
        /\ request_bucket[kind[c]].available = request_bucket[kind[c]].max_tokens
        /\ token_bucket[kind[c]].available = token_bucket[kind[c]].max_tokens

====
